---- MODULE Spec2Model ----
(***************************************************************************)
(* A model of TranscriptFetch.py: a Flask service with a before_request    *)
(* hook (API-key check), a home route and a /captions route that calls the *)
(* InnerTube metadata client, fetches one caption XML document and         *)
(* reformats it as JSON.                                                   *)
(*                                                                         *)
(* Data representation                                                     *)
(*   - Python dicts are TLA+ records (functions on a set of string keys);  *)
(*     the empty dict is the empty function <<>>.                          *)
(*   - Python lists are sequences.                                         *)
(*   - A value that may be None is an option record: None or Some(v).      *)
(*   - Strings that the code only compares or interpolates (keys, ids,     *)
(*     language codes, URLs, titles, the fixed error texts) are TLA+       *)
(*     strings.  Strings the code transforms character by character (the   *)
(*     timestamps parameter, the caption texts, the start/dur attributes,  *)
(*     the message of an exception) are sequences of Unicode code points:  *)
(*     'Hi' is <<72, 105>>, written Chars("Hi").                           *)
(*   - The metadata has the JSON types the code expects of it; any key of  *)
(*     it may be absent.                                                   *)
(*   - A Python float is the double it is, named by the shortest decimal   *)
(*     that reads back as it (see float() below).                          *)
(*   - An exception is a record [exc |-> <class name>, arg |-> <message>]. *)
(***************************************************************************)
EXTENDS Integers, Sequences, FiniteSets, TLC

VARIABLES
    API_KEY,          \* module global read from the environment at import
    pc,               \* where the request being served stands
    request,          \* the request being served: route, headers, args
    player_data,      \* what client.player returned (None before)
    selected_caption, \* the caption track chosen for the language (None before)
    raw_captions,     \* the body requests.get returned (None before)
    response,         \* the (status, JSON body) returned (None before)
    trace             \* the external calls and returns of this request, in order

vars == <<API_KEY, pc, request, player_data, selected_caption, raw_captions,
          response, trace>>

(***************************************************************************)
(* Python values                                                           *)
(***************************************************************************)
None == [some |-> FALSE]

Some(v) == [some |-> TRUE, val |-> v]

\* dict.get(key, default)
Get(d, key, default) == IF key \in DOMAIN d THEN d[key] ELSE default

\* the last element of a non-empty list: l[-1]
Last(l) == l[Len(l)]

\* s as a tuple
Tuple(s) == SubSeq(s, 1, Len(s))

Min(S) == CHOOSE i \in S : \A j \in S : i <= j

Max(S) == CHOOSE i \in S : \A j \in S : j <= i

(***************************************************************************)
(* Characters.  A character is its Unicode code point.  The tables are     *)
(* those of Unicode 14.0.0, the character database of CPython 3.11; a      *)
(* range is a pair <<first, last>> of code points.                         *)
(***************************************************************************)
\* the printable characters of ASCII in code point order: from the space
\* (code point 32) to the underscore (95), and from a (97) to the tilde (126)
AsciiToUnderscore ==
    " !\"#$%&'()*+,-./0123456789:;<=>?@ABCDEFGHIJKLMNOPQRSTUVWXYZ[\\]^_"

AsciiFromA == "abcdefghijklmnopqrstuvwxyz{|}~"

\* the position of the one-character string c in the string s, 0 if it is not there
Find(s, c) ==
    IF \E i \in 1..Len(s) : SubSeq(s, i, i) = c
    THEN CHOOSE i \in 1..Len(s) : SubSeq(s, i, i) = c
    ELSE 0

\* ord(c) of an ASCII character written as a one-character string
Ord(c) ==
    CASE c = "\t" -> 9
      [] c = "\n" -> 10
      [] c = "\r" -> 13
      [] Find(AsciiFromA, c) > 0 -> 96 + Find(AsciiFromA, c)
      [] OTHER -> 31 + Find(AsciiToUnderscore, c)

\* the string a string literal of the source denotes
Chars(literal) == Tuple([i \in 1..Len(literal) |-> Ord(SubSeq(literal, i, i))])

\* c lies in one of the ranges
In(c, ranges) == \E r \in ranges : r[1] <= c /\ c <= r[2]

\* the characters whose lower case is one other character, as runs
\* <<first, last, step, shift>>: every step-th code point from first to last
\* has the code point shift further on as its lower case
Lowercase ==
    {<<65, 90, 1, 32>>, <<192, 214, 1, 32>>, <<216, 222, 1, 32>>, <<256, 302, 2, 1>>, <<306, 310, 2, 1>>,
     <<313, 327, 2, 1>>, <<330, 374, 2, 1>>, <<376, 376, 1, -121>>, <<377, 381, 2, 1>>, <<385, 385, 1, 210>>,
     <<386, 388, 2, 1>>, <<390, 390, 1, 206>>, <<391, 391, 1, 1>>, <<393, 394, 1, 205>>, <<395, 395, 1, 1>>,
     <<398, 398, 1, 79>>, <<399, 399, 1, 202>>, <<400, 400, 1, 203>>, <<401, 401, 1, 1>>, <<403, 403, 1, 205>>,
     <<404, 404, 1, 207>>, <<406, 406, 1, 211>>, <<407, 407, 1, 209>>, <<408, 408, 1, 1>>, <<412, 412, 1, 211>>,
     <<413, 413, 1, 213>>, <<415, 415, 1, 214>>, <<416, 420, 2, 1>>, <<422, 422, 1, 218>>, <<423, 423, 1, 1>>,
     <<425, 425, 1, 218>>, <<428, 428, 1, 1>>, <<430, 430, 1, 218>>, <<431, 431, 1, 1>>, <<433, 434, 1, 217>>,
     <<435, 437, 2, 1>>, <<439, 439, 1, 219>>, <<440, 440, 1, 1>>, <<444, 444, 1, 1>>, <<452, 452, 1, 2>>,
     <<453, 453, 1, 1>>, <<455, 455, 1, 2>>, <<456, 456, 1, 1>>, <<458, 458, 1, 2>>, <<459, 475, 2, 1>>,
     <<478, 494, 2, 1>>, <<497, 497, 1, 2>>, <<498, 500, 2, 1>>, <<502, 502, 1, -97>>, <<503, 503, 1, -56>>,
     <<504, 542, 2, 1>>, <<544, 544, 1, -130>>, <<546, 562, 2, 1>>, <<570, 570, 1, 10795>>, <<571, 571, 1, 1>>,
     <<573, 573, 1, -163>>, <<574, 574, 1, 10792>>, <<577, 577, 1, 1>>, <<579, 579, 1, -195>>, <<580, 580, 1, 69>>,
     <<581, 581, 1, 71>>, <<582, 590, 2, 1>>, <<880, 882, 2, 1>>, <<886, 886, 1, 1>>, <<895, 895, 1, 116>>,
     <<902, 902, 1, 38>>, <<904, 906, 1, 37>>, <<908, 908, 1, 64>>, <<910, 911, 1, 63>>, <<913, 929, 1, 32>>,
     <<931, 939, 1, 32>>, <<975, 975, 1, 8>>, <<984, 1006, 2, 1>>, <<1012, 1012, 1, -60>>, <<1015, 1015, 1, 1>>,
     <<1017, 1017, 1, -7>>, <<1018, 1018, 1, 1>>, <<1021, 1023, 1, -130>>, <<1024, 1039, 1, 80>>, <<1040, 1071, 1, 32>>,
     <<1120, 1152, 2, 1>>, <<1162, 1214, 2, 1>>, <<1216, 1216, 1, 15>>, <<1217, 1229, 2, 1>>, <<1232, 1326, 2, 1>>,
     <<1329, 1366, 1, 48>>, <<4256, 4293, 1, 7264>>, <<4295, 4295, 1, 7264>>, <<4301, 4301, 1, 7264>>, <<5024, 5103, 1, 38864>>,
     <<5104, 5109, 1, 8>>, <<7312, 7354, 1, -3008>>, <<7357, 7359, 1, -3008>>, <<7680, 7828, 2, 1>>, <<7838, 7838, 1, -7615>>,
     <<7840, 7934, 2, 1>>, <<7944, 7951, 1, -8>>, <<7960, 7965, 1, -8>>, <<7976, 7983, 1, -8>>, <<7992, 7999, 1, -8>>,
     <<8008, 8013, 1, -8>>, <<8025, 8031, 2, -8>>, <<8040, 8047, 1, -8>>, <<8072, 8079, 1, -8>>, <<8088, 8095, 1, -8>>,
     <<8104, 8111, 1, -8>>, <<8120, 8121, 1, -8>>, <<8122, 8123, 1, -74>>, <<8124, 8124, 1, -9>>, <<8136, 8139, 1, -86>>,
     <<8140, 8140, 1, -9>>, <<8152, 8153, 1, -8>>, <<8154, 8155, 1, -100>>, <<8168, 8169, 1, -8>>, <<8170, 8171, 1, -112>>,
     <<8172, 8172, 1, -7>>, <<8184, 8185, 1, -128>>, <<8186, 8187, 1, -126>>, <<8188, 8188, 1, -9>>, <<8486, 8486, 1, -7517>>,
     <<8490, 8490, 1, -8383>>, <<8491, 8491, 1, -8262>>, <<8498, 8498, 1, 28>>, <<8544, 8559, 1, 16>>, <<8579, 8579, 1, 1>>,
     <<9398, 9423, 1, 26>>, <<11264, 11311, 1, 48>>, <<11360, 11360, 1, 1>>, <<11362, 11362, 1, -10743>>, <<11363, 11363, 1, -3814>>,
     <<11364, 11364, 1, -10727>>, <<11367, 11371, 2, 1>>, <<11373, 11373, 1, -10780>>, <<11374, 11374, 1, -10749>>, <<11375, 11375, 1, -10783>>,
     <<11376, 11376, 1, -10782>>, <<11378, 11378, 1, 1>>, <<11381, 11381, 1, 1>>, <<11390, 11391, 1, -10815>>, <<11392, 11490, 2, 1>>,
     <<11499, 11501, 2, 1>>, <<11506, 11506, 1, 1>>, <<42560, 42604, 2, 1>>, <<42624, 42650, 2, 1>>, <<42786, 42798, 2, 1>>,
     <<42802, 42862, 2, 1>>, <<42873, 42875, 2, 1>>, <<42877, 42877, 1, -35332>>, <<42878, 42886, 2, 1>>, <<42891, 42891, 1, 1>>,
     <<42893, 42893, 1, -42280>>, <<42896, 42898, 2, 1>>, <<42902, 42920, 2, 1>>, <<42922, 42922, 1, -42308>>, <<42923, 42923, 1, -42319>>,
     <<42924, 42924, 1, -42315>>, <<42925, 42925, 1, -42305>>, <<42926, 42926, 1, -42308>>, <<42928, 42928, 1, -42258>>, <<42929, 42929, 1, -42282>>,
     <<42930, 42930, 1, -42261>>, <<42931, 42931, 1, 928>>, <<42932, 42946, 2, 1>>, <<42948, 42948, 1, -48>>, <<42949, 42949, 1, -42307>>,
     <<42950, 42950, 1, -35384>>, <<42951, 42953, 2, 1>>, <<42960, 42960, 1, 1>>, <<42966, 42968, 2, 1>>, <<42997, 42997, 1, 1>>,
     <<65313, 65338, 1, 32>>, <<66560, 66599, 1, 40>>, <<66736, 66771, 1, 40>>, <<66928, 66938, 1, 39>>, <<66940, 66954, 1, 39>>,
     <<66956, 66962, 1, 39>>, <<66964, 66965, 1, 39>>, <<68736, 68786, 1, 64>>, <<71840, 71871, 1, 32>>, <<93760, 93791, 1, 32>>,
     <<125184, 125217, 1, 34>>}

InRun(c, r) == r[1] <= c /\ c <= r[2] /\ (c - r[1]) % r[3] = 0

\* the characters str.lower() passes over when it looks for the letters
\* around a capital sigma (Case_Ignorable)
CaseIgnorable ==
    {<<39, 39>>, <<46, 46>>, <<58, 58>>, <<94, 94>>, <<96, 96>>, <<168, 168>>,
     <<173, 173>>, <<175, 175>>, <<180, 180>>, <<183, 184>>, <<688, 879>>, <<884, 885>>,
     <<890, 890>>, <<900, 901>>, <<903, 903>>, <<1155, 1161>>, <<1369, 1369>>, <<1375, 1375>>,
     <<1425, 1469>>, <<1471, 1471>>, <<1473, 1474>>, <<1476, 1477>>, <<1479, 1479>>, <<1524, 1524>>,
     <<1536, 1541>>, <<1552, 1562>>, <<1564, 1564>>, <<1600, 1600>>, <<1611, 1631>>, <<1648, 1648>>,
     <<1750, 1757>>, <<1759, 1768>>, <<1770, 1773>>, <<1807, 1807>>, <<1809, 1809>>, <<1840, 1866>>,
     <<1958, 1968>>, <<2027, 2037>>, <<2042, 2042>>, <<2045, 2045>>, <<2070, 2093>>, <<2137, 2139>>,
     <<2184, 2184>>, <<2192, 2193>>, <<2200, 2207>>, <<2249, 2306>>, <<2362, 2362>>, <<2364, 2364>>,
     <<2369, 2376>>, <<2381, 2381>>, <<2385, 2391>>, <<2402, 2403>>, <<2417, 2417>>, <<2433, 2433>>,
     <<2492, 2492>>, <<2497, 2500>>, <<2509, 2509>>, <<2530, 2531>>, <<2558, 2558>>, <<2561, 2562>>,
     <<2620, 2620>>, <<2625, 2626>>, <<2631, 2632>>, <<2635, 2637>>, <<2641, 2641>>, <<2672, 2673>>,
     <<2677, 2677>>, <<2689, 2690>>, <<2748, 2748>>, <<2753, 2757>>, <<2759, 2760>>, <<2765, 2765>>,
     <<2786, 2787>>, <<2810, 2815>>, <<2817, 2817>>, <<2876, 2876>>, <<2879, 2879>>, <<2881, 2884>>,
     <<2893, 2893>>, <<2901, 2902>>, <<2914, 2915>>, <<2946, 2946>>, <<3008, 3008>>, <<3021, 3021>>,
     <<3072, 3072>>, <<3076, 3076>>, <<3132, 3132>>, <<3134, 3136>>, <<3142, 3144>>, <<3146, 3149>>,
     <<3157, 3158>>, <<3170, 3171>>, <<3201, 3201>>, <<3260, 3260>>, <<3263, 3263>>, <<3270, 3270>>,
     <<3276, 3277>>, <<3298, 3299>>, <<3328, 3329>>, <<3387, 3388>>, <<3393, 3396>>, <<3405, 3405>>,
     <<3426, 3427>>, <<3457, 3457>>, <<3530, 3530>>, <<3538, 3540>>, <<3542, 3542>>, <<3633, 3633>>,
     <<3636, 3642>>, <<3654, 3662>>, <<3761, 3761>>, <<3764, 3772>>, <<3782, 3782>>, <<3784, 3789>>,
     <<3864, 3865>>, <<3893, 3893>>, <<3895, 3895>>, <<3897, 3897>>, <<3953, 3966>>, <<3968, 3972>>,
     <<3974, 3975>>, <<3981, 3991>>, <<3993, 4028>>, <<4038, 4038>>, <<4141, 4144>>, <<4146, 4151>>,
     <<4153, 4154>>, <<4157, 4158>>, <<4184, 4185>>, <<4190, 4192>>, <<4209, 4212>>, <<4226, 4226>>,
     <<4229, 4230>>, <<4237, 4237>>, <<4253, 4253>>, <<4348, 4348>>, <<4957, 4959>>, <<5906, 5908>>,
     <<5938, 5939>>, <<5970, 5971>>, <<6002, 6003>>, <<6068, 6069>>, <<6071, 6077>>, <<6086, 6086>>,
     <<6089, 6099>>, <<6103, 6103>>, <<6109, 6109>>, <<6155, 6159>>, <<6211, 6211>>, <<6277, 6278>>,
     <<6313, 6313>>, <<6432, 6434>>, <<6439, 6440>>, <<6450, 6450>>, <<6457, 6459>>, <<6679, 6680>>,
     <<6683, 6683>>, <<6742, 6742>>, <<6744, 6750>>, <<6752, 6752>>, <<6754, 6754>>, <<6757, 6764>>,
     <<6771, 6780>>, <<6783, 6783>>, <<6823, 6823>>, <<6832, 6862>>, <<6912, 6915>>, <<6964, 6964>>,
     <<6966, 6970>>, <<6972, 6972>>, <<6978, 6978>>, <<7019, 7027>>, <<7040, 7041>>, <<7074, 7077>>,
     <<7080, 7081>>, <<7083, 7085>>, <<7142, 7142>>, <<7144, 7145>>, <<7149, 7149>>, <<7151, 7153>>,
     <<7212, 7219>>, <<7222, 7223>>, <<7288, 7293>>, <<7376, 7378>>, <<7380, 7392>>, <<7394, 7400>>,
     <<7405, 7405>>, <<7412, 7412>>, <<7416, 7417>>, <<7468, 7530>>, <<7544, 7544>>, <<7579, 7679>>,
     <<8125, 8125>>, <<8127, 8129>>, <<8141, 8143>>, <<8157, 8159>>, <<8173, 8175>>, <<8189, 8190>>,
     <<8203, 8207>>, <<8216, 8217>>, <<8228, 8228>>, <<8231, 8231>>, <<8234, 8238>>, <<8288, 8292>>,
     <<8294, 8303>>, <<8305, 8305>>, <<8319, 8319>>, <<8336, 8348>>, <<8400, 8432>>, <<11388, 11389>>,
     <<11503, 11505>>, <<11631, 11631>>, <<11647, 11647>>, <<11744, 11775>>, <<11823, 11823>>, <<12293, 12293>>,
     <<12330, 12333>>, <<12337, 12341>>, <<12347, 12347>>, <<12441, 12446>>, <<12540, 12542>>, <<40981, 40981>>,
     <<42232, 42237>>, <<42508, 42508>>, <<42607, 42610>>, <<42612, 42621>>, <<42623, 42623>>, <<42652, 42655>>,
     <<42736, 42737>>, <<42752, 42785>>, <<42864, 42864>>, <<42888, 42890>>, <<42994, 42996>>, <<43000, 43001>>,
     <<43010, 43010>>, <<43014, 43014>>, <<43019, 43019>>, <<43045, 43046>>, <<43052, 43052>>, <<43204, 43205>>,
     <<43232, 43249>>, <<43263, 43263>>, <<43302, 43309>>, <<43335, 43345>>, <<43392, 43394>>, <<43443, 43443>>,
     <<43446, 43449>>, <<43452, 43453>>, <<43471, 43471>>, <<43493, 43494>>, <<43561, 43566>>, <<43569, 43570>>,
     <<43573, 43574>>, <<43587, 43587>>, <<43596, 43596>>, <<43632, 43632>>, <<43644, 43644>>, <<43696, 43696>>,
     <<43698, 43700>>, <<43703, 43704>>, <<43710, 43711>>, <<43713, 43713>>, <<43741, 43741>>, <<43756, 43757>>,
     <<43763, 43764>>, <<43766, 43766>>, <<43867, 43871>>, <<43881, 43883>>, <<44005, 44005>>, <<44008, 44008>>,
     <<44013, 44013>>, <<64286, 64286>>, <<64434, 64450>>, <<65024, 65039>>, <<65043, 65043>>, <<65056, 65071>>,
     <<65106, 65106>>, <<65109, 65109>>, <<65279, 65279>>, <<65287, 65287>>, <<65294, 65294>>, <<65306, 65306>>,
     <<65342, 65342>>, <<65344, 65344>>, <<65392, 65392>>, <<65438, 65439>>, <<65507, 65507>>, <<65529, 65531>>,
     <<66045, 66045>>, <<66272, 66272>>, <<66422, 66426>>, <<67456, 67461>>, <<67463, 67504>>, <<67506, 67514>>,
     <<68097, 68099>>, <<68101, 68102>>, <<68108, 68111>>, <<68152, 68154>>, <<68159, 68159>>, <<68325, 68326>>,
     <<68900, 68903>>, <<69291, 69292>>, <<69446, 69456>>, <<69506, 69509>>, <<69633, 69633>>, <<69688, 69702>>,
     <<69744, 69744>>, <<69747, 69748>>, <<69759, 69761>>, <<69811, 69814>>, <<69817, 69818>>, <<69821, 69821>>,
     <<69826, 69826>>, <<69837, 69837>>, <<69888, 69890>>, <<69927, 69931>>, <<69933, 69940>>, <<70003, 70003>>,
     <<70016, 70017>>, <<70070, 70078>>, <<70089, 70092>>, <<70095, 70095>>, <<70191, 70193>>, <<70196, 70196>>,
     <<70198, 70199>>, <<70206, 70206>>, <<70367, 70367>>, <<70371, 70378>>, <<70400, 70401>>, <<70459, 70460>>,
     <<70464, 70464>>, <<70502, 70508>>, <<70512, 70516>>, <<70712, 70719>>, <<70722, 70724>>, <<70726, 70726>>,
     <<70750, 70750>>, <<70835, 70840>>, <<70842, 70842>>, <<70847, 70848>>, <<70850, 70851>>, <<71090, 71093>>,
     <<71100, 71101>>, <<71103, 71104>>, <<71132, 71133>>, <<71219, 71226>>, <<71229, 71229>>, <<71231, 71232>>,
     <<71339, 71339>>, <<71341, 71341>>, <<71344, 71349>>, <<71351, 71351>>, <<71453, 71455>>, <<71458, 71461>>,
     <<71463, 71467>>, <<71727, 71735>>, <<71737, 71738>>, <<71995, 71996>>, <<71998, 71998>>, <<72003, 72003>>,
     <<72148, 72151>>, <<72154, 72155>>, <<72160, 72160>>, <<72193, 72202>>, <<72243, 72248>>, <<72251, 72254>>,
     <<72263, 72263>>, <<72273, 72278>>, <<72281, 72283>>, <<72330, 72342>>, <<72344, 72345>>, <<72752, 72758>>,
     <<72760, 72765>>, <<72767, 72767>>, <<72850, 72871>>, <<72874, 72880>>, <<72882, 72883>>, <<72885, 72886>>,
     <<73009, 73014>>, <<73018, 73018>>, <<73020, 73021>>, <<73023, 73029>>, <<73031, 73031>>, <<73104, 73105>>,
     <<73109, 73109>>, <<73111, 73111>>, <<73459, 73460>>, <<78896, 78904>>, <<92912, 92916>>, <<92976, 92982>>,
     <<92992, 92995>>, <<94031, 94031>>, <<94095, 94111>>, <<94176, 94177>>, <<94179, 94180>>, <<110576, 110579>>,
     <<110581, 110587>>, <<110589, 110590>>, <<113821, 113822>>, <<113824, 113827>>, <<118528, 118573>>, <<118576, 118598>>,
     <<119143, 119145>>, <<119155, 119170>>, <<119173, 119179>>, <<119210, 119213>>, <<119362, 119364>>, <<121344, 121398>>,
     <<121403, 121452>>, <<121461, 121461>>, <<121476, 121476>>, <<121499, 121503>>, <<121505, 121519>>, <<122880, 122886>>,
     <<122888, 122904>>, <<122907, 122913>>, <<122915, 122916>>, <<122918, 122922>>, <<123184, 123197>>, <<123566, 123566>>,
     <<123628, 123631>>, <<125136, 125142>>, <<125252, 125259>>, <<127995, 127999>>, <<917505, 917505>>, <<917536, 917631>>,
     <<917760, 917999>>}

\* the cased letters (Cased) among the characters that are not passed over
CasedLetters ==
    {<<65, 90>>, <<97, 122>>, <<170, 170>>, <<181, 181>>, <<186, 186>>, <<192, 214>>,
     <<216, 246>>, <<248, 442>>, <<444, 447>>, <<452, 659>>, <<661, 687>>, <<880, 883>>,
     <<886, 887>>, <<891, 893>>, <<895, 895>>, <<902, 902>>, <<904, 906>>, <<908, 908>>,
     <<910, 929>>, <<931, 1013>>, <<1015, 1153>>, <<1162, 1327>>, <<1329, 1366>>, <<1376, 1416>>,
     <<4256, 4293>>, <<4295, 4295>>, <<4301, 4301>>, <<4304, 4346>>, <<4349, 4351>>, <<5024, 5109>>,
     <<5112, 5117>>, <<7296, 7304>>, <<7312, 7354>>, <<7357, 7359>>, <<7424, 7467>>, <<7531, 7543>>,
     <<7545, 7578>>, <<7680, 7957>>, <<7960, 7965>>, <<7968, 8005>>, <<8008, 8013>>, <<8016, 8023>>,
     <<8025, 8025>>, <<8027, 8027>>, <<8029, 8029>>, <<8031, 8061>>, <<8064, 8116>>, <<8118, 8124>>,
     <<8126, 8126>>, <<8130, 8132>>, <<8134, 8140>>, <<8144, 8147>>, <<8150, 8155>>, <<8160, 8172>>,
     <<8178, 8180>>, <<8182, 8188>>, <<8450, 8450>>, <<8455, 8455>>, <<8458, 8467>>, <<8469, 8469>>,
     <<8473, 8477>>, <<8484, 8484>>, <<8486, 8486>>, <<8488, 8488>>, <<8490, 8493>>, <<8495, 8500>>,
     <<8505, 8505>>, <<8508, 8511>>, <<8517, 8521>>, <<8526, 8526>>, <<8544, 8575>>, <<8579, 8580>>,
     <<9398, 9449>>, <<11264, 11387>>, <<11390, 11492>>, <<11499, 11502>>, <<11506, 11507>>, <<11520, 11557>>,
     <<11559, 11559>>, <<11565, 11565>>, <<42560, 42605>>, <<42624, 42651>>, <<42786, 42863>>, <<42865, 42887>>,
     <<42891, 42894>>, <<42896, 42954>>, <<42960, 42961>>, <<42963, 42963>>, <<42965, 42969>>, <<42997, 42998>>,
     <<43002, 43002>>, <<43824, 43866>>, <<43872, 43880>>, <<43888, 43967>>, <<64256, 64262>>, <<64275, 64279>>,
     <<65313, 65338>>, <<65345, 65370>>, <<66560, 66639>>, <<66736, 66771>>, <<66776, 66811>>, <<66928, 66938>>,
     <<66940, 66954>>, <<66956, 66962>>, <<66964, 66965>>, <<66967, 66977>>, <<66979, 66993>>, <<66995, 67001>>,
     <<67003, 67004>>, <<68736, 68786>>, <<68800, 68850>>, <<71840, 71903>>, <<93760, 93823>>, <<119808, 119892>>,
     <<119894, 119964>>, <<119966, 119967>>, <<119970, 119970>>, <<119973, 119974>>, <<119977, 119980>>, <<119982, 119993>>,
     <<119995, 119995>>, <<119997, 120003>>, <<120005, 120069>>, <<120071, 120074>>, <<120077, 120084>>, <<120086, 120092>>,
     <<120094, 120121>>, <<120123, 120126>>, <<120128, 120132>>, <<120134, 120134>>, <<120138, 120144>>, <<120146, 120485>>,
     <<120488, 120512>>, <<120514, 120538>>, <<120540, 120570>>, <<120572, 120596>>, <<120598, 120628>>, <<120630, 120654>>,
     <<120656, 120686>>, <<120688, 120712>>, <<120714, 120744>>, <<120746, 120770>>, <<120772, 120779>>, <<122624, 122633>>,
     <<122635, 122654>>, <<125184, 125251>>, <<127280, 127305>>, <<127312, 127337>>, <<127344, 127369>>}

\* the characters repr() writes as an escape: those str.isprintable() is
\* false of
NonPrintable ==
    {<<0, 31>>, <<127, 160>>, <<173, 173>>, <<888, 889>>, <<896, 899>>, <<907, 907>>,
     <<909, 909>>, <<930, 930>>, <<1328, 1328>>, <<1367, 1368>>, <<1419, 1420>>, <<1424, 1424>>,
     <<1480, 1487>>, <<1515, 1518>>, <<1525, 1541>>, <<1564, 1564>>, <<1757, 1757>>, <<1806, 1807>>,
     <<1867, 1868>>, <<1970, 1983>>, <<2043, 2044>>, <<2094, 2095>>, <<2111, 2111>>, <<2140, 2141>>,
     <<2143, 2143>>, <<2155, 2159>>, <<2191, 2199>>, <<2274, 2274>>, <<2436, 2436>>, <<2445, 2446>>,
     <<2449, 2450>>, <<2473, 2473>>, <<2481, 2481>>, <<2483, 2485>>, <<2490, 2491>>, <<2501, 2502>>,
     <<2505, 2506>>, <<2511, 2518>>, <<2520, 2523>>, <<2526, 2526>>, <<2532, 2533>>, <<2559, 2560>>,
     <<2564, 2564>>, <<2571, 2574>>, <<2577, 2578>>, <<2601, 2601>>, <<2609, 2609>>, <<2612, 2612>>,
     <<2615, 2615>>, <<2618, 2619>>, <<2621, 2621>>, <<2627, 2630>>, <<2633, 2634>>, <<2638, 2640>>,
     <<2642, 2648>>, <<2653, 2653>>, <<2655, 2661>>, <<2679, 2688>>, <<2692, 2692>>, <<2702, 2702>>,
     <<2706, 2706>>, <<2729, 2729>>, <<2737, 2737>>, <<2740, 2740>>, <<2746, 2747>>, <<2758, 2758>>,
     <<2762, 2762>>, <<2766, 2767>>, <<2769, 2783>>, <<2788, 2789>>, <<2802, 2808>>, <<2816, 2816>>,
     <<2820, 2820>>, <<2829, 2830>>, <<2833, 2834>>, <<2857, 2857>>, <<2865, 2865>>, <<2868, 2868>>,
     <<2874, 2875>>, <<2885, 2886>>, <<2889, 2890>>, <<2894, 2900>>, <<2904, 2907>>, <<2910, 2910>>,
     <<2916, 2917>>, <<2936, 2945>>, <<2948, 2948>>, <<2955, 2957>>, <<2961, 2961>>, <<2966, 2968>>,
     <<2971, 2971>>, <<2973, 2973>>, <<2976, 2978>>, <<2981, 2983>>, <<2987, 2989>>, <<3002, 3005>>,
     <<3011, 3013>>, <<3017, 3017>>, <<3022, 3023>>, <<3025, 3030>>, <<3032, 3045>>, <<3067, 3071>>,
     <<3085, 3085>>, <<3089, 3089>>, <<3113, 3113>>, <<3130, 3131>>, <<3141, 3141>>, <<3145, 3145>>,
     <<3150, 3156>>, <<3159, 3159>>, <<3163, 3164>>, <<3166, 3167>>, <<3172, 3173>>, <<3184, 3190>>,
     <<3213, 3213>>, <<3217, 3217>>, <<3241, 3241>>, <<3252, 3252>>, <<3258, 3259>>, <<3269, 3269>>,
     <<3273, 3273>>, <<3278, 3284>>, <<3287, 3292>>, <<3295, 3295>>, <<3300, 3301>>, <<3312, 3312>>,
     <<3315, 3327>>, <<3341, 3341>>, <<3345, 3345>>, <<3397, 3397>>, <<3401, 3401>>, <<3408, 3411>>,
     <<3428, 3429>>, <<3456, 3456>>, <<3460, 3460>>, <<3479, 3481>>, <<3506, 3506>>, <<3516, 3516>>,
     <<3518, 3519>>, <<3527, 3529>>, <<3531, 3534>>, <<3541, 3541>>, <<3543, 3543>>, <<3552, 3557>>,
     <<3568, 3569>>, <<3573, 3584>>, <<3643, 3646>>, <<3676, 3712>>, <<3715, 3715>>, <<3717, 3717>>,
     <<3723, 3723>>, <<3748, 3748>>, <<3750, 3750>>, <<3774, 3775>>, <<3781, 3781>>, <<3783, 3783>>,
     <<3790, 3791>>, <<3802, 3803>>, <<3808, 3839>>, <<3912, 3912>>, <<3949, 3952>>, <<3992, 3992>>,
     <<4029, 4029>>, <<4045, 4045>>, <<4059, 4095>>, <<4294, 4294>>, <<4296, 4300>>, <<4302, 4303>>,
     <<4681, 4681>>, <<4686, 4687>>, <<4695, 4695>>, <<4697, 4697>>, <<4702, 4703>>, <<4745, 4745>>,
     <<4750, 4751>>, <<4785, 4785>>, <<4790, 4791>>, <<4799, 4799>>, <<4801, 4801>>, <<4806, 4807>>,
     <<4823, 4823>>, <<4881, 4881>>, <<4886, 4887>>, <<4955, 4956>>, <<4989, 4991>>, <<5018, 5023>>,
     <<5110, 5111>>, <<5118, 5119>>, <<5760, 5760>>, <<5789, 5791>>, <<5881, 5887>>, <<5910, 5918>>,
     <<5943, 5951>>, <<5972, 5983>>, <<5997, 5997>>, <<6001, 6001>>, <<6004, 6015>>, <<6110, 6111>>,
     <<6122, 6127>>, <<6138, 6143>>, <<6158, 6158>>, <<6170, 6175>>, <<6265, 6271>>, <<6315, 6319>>,
     <<6390, 6399>>, <<6431, 6431>>, <<6444, 6447>>, <<6460, 6463>>, <<6465, 6467>>, <<6510, 6511>>,
     <<6517, 6527>>, <<6572, 6575>>, <<6602, 6607>>, <<6619, 6621>>, <<6684, 6685>>, <<6751, 6751>>,
     <<6781, 6782>>, <<6794, 6799>>, <<6810, 6815>>, <<6830, 6831>>, <<6863, 6911>>, <<6989, 6991>>,
     <<7039, 7039>>, <<7156, 7163>>, <<7224, 7226>>, <<7242, 7244>>, <<7305, 7311>>, <<7355, 7356>>,
     <<7368, 7375>>, <<7419, 7423>>, <<7958, 7959>>, <<7966, 7967>>, <<8006, 8007>>, <<8014, 8015>>,
     <<8024, 8024>>, <<8026, 8026>>, <<8028, 8028>>, <<8030, 8030>>, <<8062, 8063>>, <<8117, 8117>>,
     <<8133, 8133>>, <<8148, 8149>>, <<8156, 8156>>, <<8176, 8177>>, <<8181, 8181>>, <<8191, 8207>>,
     <<8232, 8239>>, <<8287, 8303>>, <<8306, 8307>>, <<8335, 8335>>, <<8349, 8351>>, <<8385, 8399>>,
     <<8433, 8447>>, <<8588, 8591>>, <<9255, 9279>>, <<9291, 9311>>, <<11124, 11125>>, <<11158, 11158>>,
     <<11508, 11512>>, <<11558, 11558>>, <<11560, 11564>>, <<11566, 11567>>, <<11624, 11630>>, <<11633, 11646>>,
     <<11671, 11679>>, <<11687, 11687>>, <<11695, 11695>>, <<11703, 11703>>, <<11711, 11711>>, <<11719, 11719>>,
     <<11727, 11727>>, <<11735, 11735>>, <<11743, 11743>>, <<11870, 11903>>, <<11930, 11930>>, <<12020, 12031>>,
     <<12246, 12271>>, <<12284, 12288>>, <<12352, 12352>>, <<12439, 12440>>, <<12544, 12548>>, <<12592, 12592>>,
     <<12687, 12687>>, <<12772, 12783>>, <<12831, 12831>>, <<42125, 42127>>, <<42183, 42191>>, <<42540, 42559>>,
     <<42744, 42751>>, <<42955, 42959>>, <<42962, 42962>>, <<42964, 42964>>, <<42970, 42993>>, <<43053, 43055>>,
     <<43066, 43071>>, <<43128, 43135>>, <<43206, 43213>>, <<43226, 43231>>, <<43348, 43358>>, <<43389, 43391>>,
     <<43470, 43470>>, <<43482, 43485>>, <<43519, 43519>>, <<43575, 43583>>, <<43598, 43599>>, <<43610, 43611>>,
     <<43715, 43738>>, <<43767, 43776>>, <<43783, 43784>>, <<43791, 43792>>, <<43799, 43807>>, <<43815, 43815>>,
     <<43823, 43823>>, <<43884, 43887>>, <<44014, 44015>>, <<44026, 44031>>, <<55204, 55215>>, <<55239, 55242>>,
     <<55292, 63743>>, <<64110, 64111>>, <<64218, 64255>>, <<64263, 64274>>, <<64280, 64284>>, <<64311, 64311>>,
     <<64317, 64317>>, <<64319, 64319>>, <<64322, 64322>>, <<64325, 64325>>, <<64451, 64466>>, <<64912, 64913>>,
     <<64968, 64974>>, <<64976, 65007>>, <<65050, 65055>>, <<65107, 65107>>, <<65127, 65127>>, <<65132, 65135>>,
     <<65141, 65141>>, <<65277, 65280>>, <<65471, 65473>>, <<65480, 65481>>, <<65488, 65489>>, <<65496, 65497>>,
     <<65501, 65503>>, <<65511, 65511>>, <<65519, 65531>>, <<65534, 65535>>, <<65548, 65548>>, <<65575, 65575>>,
     <<65595, 65595>>, <<65598, 65598>>, <<65614, 65615>>, <<65630, 65663>>, <<65787, 65791>>, <<65795, 65798>>,
     <<65844, 65846>>, <<65935, 65935>>, <<65949, 65951>>, <<65953, 65999>>, <<66046, 66175>>, <<66205, 66207>>,
     <<66257, 66271>>, <<66300, 66303>>, <<66340, 66348>>, <<66379, 66383>>, <<66427, 66431>>, <<66462, 66462>>,
     <<66500, 66503>>, <<66518, 66559>>, <<66718, 66719>>, <<66730, 66735>>, <<66772, 66775>>, <<66812, 66815>>,
     <<66856, 66863>>, <<66916, 66926>>, <<66939, 66939>>, <<66955, 66955>>, <<66963, 66963>>, <<66966, 66966>>,
     <<66978, 66978>>, <<66994, 66994>>, <<67002, 67002>>, <<67005, 67071>>, <<67383, 67391>>, <<67414, 67423>>,
     <<67432, 67455>>, <<67462, 67462>>, <<67505, 67505>>, <<67515, 67583>>, <<67590, 67591>>, <<67593, 67593>>,
     <<67638, 67638>>, <<67641, 67643>>, <<67645, 67646>>, <<67670, 67670>>, <<67743, 67750>>, <<67760, 67807>>,
     <<67827, 67827>>, <<67830, 67834>>, <<67868, 67870>>, <<67898, 67902>>, <<67904, 67967>>, <<68024, 68027>>,
     <<68048, 68049>>, <<68100, 68100>>, <<68103, 68107>>, <<68116, 68116>>, <<68120, 68120>>, <<68150, 68151>>,
     <<68155, 68158>>, <<68169, 68175>>, <<68185, 68191>>, <<68256, 68287>>, <<68327, 68330>>, <<68343, 68351>>,
     <<68406, 68408>>, <<68438, 68439>>, <<68467, 68471>>, <<68498, 68504>>, <<68509, 68520>>, <<68528, 68607>>,
     <<68681, 68735>>, <<68787, 68799>>, <<68851, 68857>>, <<68904, 68911>>, <<68922, 69215>>, <<69247, 69247>>,
     <<69290, 69290>>, <<69294, 69295>>, <<69298, 69375>>, <<69416, 69423>>, <<69466, 69487>>, <<69514, 69551>>,
     <<69580, 69599>>, <<69623, 69631>>, <<69710, 69713>>, <<69750, 69758>>, <<69821, 69821>>, <<69827, 69839>>,
     <<69865, 69871>>, <<69882, 69887>>, <<69941, 69941>>, <<69960, 69967>>, <<70007, 70015>>, <<70112, 70112>>,
     <<70133, 70143>>, <<70162, 70162>>, <<70207, 70271>>, <<70279, 70279>>, <<70281, 70281>>, <<70286, 70286>>,
     <<70302, 70302>>, <<70314, 70319>>, <<70379, 70383>>, <<70394, 70399>>, <<70404, 70404>>, <<70413, 70414>>,
     <<70417, 70418>>, <<70441, 70441>>, <<70449, 70449>>, <<70452, 70452>>, <<70458, 70458>>, <<70469, 70470>>,
     <<70473, 70474>>, <<70478, 70479>>, <<70481, 70486>>, <<70488, 70492>>, <<70500, 70501>>, <<70509, 70511>>,
     <<70517, 70655>>, <<70748, 70748>>, <<70754, 70783>>, <<70856, 70863>>, <<70874, 71039>>, <<71094, 71095>>,
     <<71134, 71167>>, <<71237, 71247>>, <<71258, 71263>>, <<71277, 71295>>, <<71354, 71359>>, <<71370, 71423>>,
     <<71451, 71452>>, <<71468, 71471>>, <<71495, 71679>>, <<71740, 71839>>, <<71923, 71934>>, <<71943, 71944>>,
     <<71946, 71947>>, <<71956, 71956>>, <<71959, 71959>>, <<71990, 71990>>, <<71993, 71994>>, <<72007, 72015>>,
     <<72026, 72095>>, <<72104, 72105>>, <<72152, 72153>>, <<72165, 72191>>, <<72264, 72271>>, <<72355, 72367>>,
     <<72441, 72703>>, <<72713, 72713>>, <<72759, 72759>>, <<72774, 72783>>, <<72813, 72815>>, <<72848, 72849>>,
     <<72872, 72872>>, <<72887, 72959>>, <<72967, 72967>>, <<72970, 72970>>, <<73015, 73017>>, <<73019, 73019>>,
     <<73022, 73022>>, <<73032, 73039>>, <<73050, 73055>>, <<73062, 73062>>, <<73065, 73065>>, <<73103, 73103>>,
     <<73106, 73106>>, <<73113, 73119>>, <<73130, 73439>>, <<73465, 73647>>, <<73649, 73663>>, <<73714, 73726>>,
     <<74650, 74751>>, <<74863, 74863>>, <<74869, 74879>>, <<75076, 77711>>, <<77811, 77823>>, <<78895, 82943>>,
     <<83527, 92159>>, <<92729, 92735>>, <<92767, 92767>>, <<92778, 92781>>, <<92863, 92863>>, <<92874, 92879>>,
     <<92910, 92911>>, <<92918, 92927>>, <<92998, 93007>>, <<93018, 93018>>, <<93026, 93026>>, <<93048, 93052>>,
     <<93072, 93759>>, <<93851, 93951>>, <<94027, 94030>>, <<94088, 94094>>, <<94112, 94175>>, <<94181, 94191>>,
     <<94194, 94207>>, <<100344, 100351>>, <<101590, 101631>>, <<101641, 110575>>, <<110580, 110580>>, <<110588, 110588>>,
     <<110591, 110591>>, <<110883, 110927>>, <<110931, 110947>>, <<110952, 110959>>, <<111356, 113663>>, <<113771, 113775>>,
     <<113789, 113791>>, <<113801, 113807>>, <<113818, 113819>>, <<113824, 118527>>, <<118574, 118575>>, <<118599, 118607>>,
     <<118724, 118783>>, <<119030, 119039>>, <<119079, 119080>>, <<119155, 119162>>, <<119275, 119295>>, <<119366, 119519>>,
     <<119540, 119551>>, <<119639, 119647>>, <<119673, 119807>>, <<119893, 119893>>, <<119965, 119965>>, <<119968, 119969>>,
     <<119971, 119972>>, <<119975, 119976>>, <<119981, 119981>>, <<119994, 119994>>, <<119996, 119996>>, <<120004, 120004>>,
     <<120070, 120070>>, <<120075, 120076>>, <<120085, 120085>>, <<120093, 120093>>, <<120122, 120122>>, <<120127, 120127>>,
     <<120133, 120133>>, <<120135, 120137>>, <<120145, 120145>>, <<120486, 120487>>, <<120780, 120781>>, <<121484, 121498>>,
     <<121504, 121504>>, <<121520, 122623>>, <<122655, 122879>>, <<122887, 122887>>, <<122905, 122906>>, <<122914, 122914>>,
     <<122917, 122917>>, <<122923, 123135>>, <<123181, 123183>>, <<123198, 123199>>, <<123210, 123213>>, <<123216, 123535>>,
     <<123567, 123583>>, <<123642, 123646>>, <<123648, 124895>>, <<124903, 124903>>, <<124908, 124908>>, <<124911, 124911>>,
     <<124927, 124927>>, <<125125, 125126>>, <<125143, 125183>>, <<125260, 125263>>, <<125274, 125277>>, <<125280, 126064>>,
     <<126133, 126208>>, <<126270, 126463>>, <<126468, 126468>>, <<126496, 126496>>, <<126499, 126499>>, <<126501, 126502>>,
     <<126504, 126504>>, <<126515, 126515>>, <<126520, 126520>>, <<126522, 126522>>, <<126524, 126529>>, <<126531, 126534>>,
     <<126536, 126536>>, <<126538, 126538>>, <<126540, 126540>>, <<126544, 126544>>, <<126547, 126547>>, <<126549, 126550>>,
     <<126552, 126552>>, <<126554, 126554>>, <<126556, 126556>>, <<126558, 126558>>, <<126560, 126560>>, <<126563, 126563>>,
     <<126565, 126566>>, <<126571, 126571>>, <<126579, 126579>>, <<126584, 126584>>, <<126589, 126589>>, <<126591, 126591>>,
     <<126602, 126602>>, <<126620, 126624>>, <<126628, 126628>>, <<126634, 126634>>, <<126652, 126703>>, <<126706, 126975>>,
     <<127020, 127023>>, <<127124, 127135>>, <<127151, 127152>>, <<127168, 127168>>, <<127184, 127184>>, <<127222, 127231>>,
     <<127406, 127461>>, <<127491, 127503>>, <<127548, 127551>>, <<127561, 127567>>, <<127570, 127583>>, <<127590, 127743>>,
     <<128728, 128732>>, <<128749, 128751>>, <<128765, 128767>>, <<128884, 128895>>, <<128985, 128991>>, <<129004, 129007>>,
     <<129009, 129023>>, <<129036, 129039>>, <<129096, 129103>>, <<129114, 129119>>, <<129160, 129167>>, <<129198, 129199>>,
     <<129202, 129279>>, <<129620, 129631>>, <<129646, 129647>>, <<129653, 129655>>, <<129661, 129663>>, <<129671, 129679>>,
     <<129709, 129711>>, <<129723, 129727>>, <<129734, 129743>>, <<129754, 129759>>, <<129768, 129775>>, <<129783, 129791>>,
     <<129939, 129939>>, <<129995, 130031>>, <<130042, 131071>>, <<173792, 173823>>, <<177977, 177983>>, <<178206, 178207>>,
     <<183970, 183983>>, <<191457, 194559>>, <<195102, 196607>>, <<201547, 917759>>, <<918000, 1114111>>}

\* the digit zero of every run of ten decimal digits (category Nd)
DecimalZeros ==
    {48, 1632, 1776, 1984, 2406, 2534, 2662, 2790, 2918, 3046,
     3174, 3302, 3430, 3558, 3664, 3792, 3872, 4160, 4240, 6112,
     6160, 6470, 6608, 6784, 6800, 6992, 7088, 7232, 7248, 42528,
     43216, 43264, 43472, 43504, 43600, 44016, 65296, 66720, 68912, 69734,
     69872, 69942, 70096, 70384, 70736, 70864, 71248, 71360, 71472, 71904,
     72016, 72784, 73040, 73120, 92768, 92864, 93008, 120782, 120792, 120802,
     120812, 120822, 123200, 123632, 125264, 130032}

\* the lower case of the character c taken alone, a string: of one character,
\* but for the capital I with a dot above (304), an i and a combining dot
LowerChar(c) ==
    IF c = 304 THEN <<105, 775>>
    ELSE IF \E r \in Lowercase : InRun(c, r)
         THEN <<c + (CHOOSE r \in Lowercase : InRun(c, r))[4]>>
    ELSE <<c>>

\* the capital sigma at s[i] ends a word: the nearest character before it
\* that is not passed over is a cased letter, and the nearest one after it,
\* if any, is not
FinalSigma(s, i) ==
    LET before == {j \in 1..(i - 1) : ~In(s[j], CaseIgnorable)}
        after  == {j \in (i + 1)..Len(s) : ~In(s[j], CaseIgnorable)}
    IN  /\ before # {} /\ In(s[Max(before)], CasedLetters)
        /\ after = {} \/ ~In(s[Min(after)], CasedLetters)

\* the lower case of s[i..j]: a capital sigma (931) becomes the final sigma
\* (962) at the end of a word, the sigma (963) elsewhere
RECURSIVE LowerFrom(_, _, _)
LowerFrom(s, i, j) ==
    IF i > j THEN <<>>
    ELSE IF i = j
         THEN IF s[i] = 931 /\ FinalSigma(s, i) THEN <<962>> ELSE LowerChar(s[i])
    ELSE LowerFrom(s, i, (i + j) \div 2) \o LowerFrom(s, (i + j) \div 2 + 1, j)

\* str.lower()
Lower(s) == LowerFrom(s, 1, Len(s))

\* str.replace(old, new): the non-overlapping occurrences, left to right
RECURSIVE Replace(_, _, _)
Replace(s, old, new) ==
    IF s = <<>> THEN <<>>
    ELSE IF Len(old) <= Len(s) /\ SubSeq(s, 1, Len(old)) = old
         THEN new \o Replace(SubSeq(s, Len(old) + 1, Len(s)), old, new)
    ELSE <<Head(s)>> \o Replace(Tail(s), old, new)

\* sep.join(parts)
RECURSIVE Join(_, _)
Join(sep, parts) ==
    IF parts = <<>> THEN <<>>
    ELSE IF Len(parts) = 1 THEN parts[1]
    ELSE parts[1] \o sep \o Join(sep, Tail(parts))

\* the outcome of evaluating an expression: a value, or an exception raised
Ok(v) == [ok |-> TRUE, val |-> v]

Raise(e) == [ok |-> FALSE, exc |-> e]

\* the quote repr() puts around s: a double quote (34) when s holds a single
\* quote (39) and no double quote, a single quote otherwise
ReprQuote(s) ==
    IF (\E i \in 1..Len(s) : s[i] = 39) /\ ~(\E i \in 1..Len(s) : s[i] = 34)
    THEN 34 ELSE 39

\* n in hexadecimal, on that many digits, as repr() writes them: 0-9, a-f
RECURSIVE Hex(_, _)
Hex(n, width) ==
    IF width = 0 THEN <<>>
    ELSE Hex(n \div 16, width - 1) \o <<(IF n % 16 < 10 THEN 48 ELSE 87) + (n % 16)>>

Backslash == Ord("\\")

\* one character as repr() writes it between the quotes
ReprChar(c, quote) ==
    IF c = quote \/ c = Backslash THEN <<Backslash, c>>
    ELSE IF c = 9 THEN <<Backslash, Ord("t")>>
    ELSE IF c = 10 THEN <<Backslash, Ord("n")>>
    ELSE IF c = 13 THEN <<Backslash, Ord("r")>>
    ELSE IF ~In(c, NonPrintable) THEN <<c>>
    ELSE IF c < 256 THEN <<Backslash, Ord("x")>> \o Hex(c, 2)
    ELSE IF c < 65536 THEN <<Backslash, Ord("u")>> \o Hex(c, 4)
    ELSE <<Backslash, Ord("U")>> \o Hex(c, 8)

RECURSIVE ReprFrom(_, _, _, _)
ReprFrom(s, quote, i, j) ==
    IF i > j THEN <<>>
    ELSE IF i = j THEN ReprChar(s[i], quote)
    ELSE ReprFrom(s, quote, i, (i + j) \div 2) \o ReprFrom(s, quote, (i + j) \div 2 + 1, j)

\* repr(s) of a string s
Repr(s) == <<ReprQuote(s)>> \o ReprFrom(s, ReprQuote(s), 1, Len(s)) \o <<ReprQuote(s)>>

\* the exception float(s) raises: its message quotes s as repr() does
ValueError(s) ==
    [exc |-> "ValueError", arg |-> Chars("could not convert string to float: ") \o Repr(s)]

\* the exception d[key] raises when d has no such key: its message is repr(key)
KeyError(key) == [exc |-> "KeyError", arg |-> Repr(Chars(key))]

\* the exception ET.fromstring raises, with the parser's message
ParseError(message) == [exc |-> "ParseError", arg |-> message]

\* str(e)
Str(e) == e.arg

\* the elements of a list comprehension one after the other: the first
\* exception ends it
Cons(first, rest) ==
    IF ~first.ok THEN first
    ELSE IF ~rest.ok THEN rest
    ELSE Ok(<<first.val>> \o rest.val)

\* d[key]
Item(d, key) == IF key \in DOMAIN d THEN Ok(d[key]) ELSE Raise(KeyError(key))

(***************************************************************************)
(* float(): a string to the IEEE 754 double nearest to the number it       *)
(* spells.                                                                 *)
(*                                                                         *)
(* A float is one of                                                       *)
(*   [kind |-> "finite", neg, digits, exp]   the double whose shortest     *)
(*       decimal that reads back as the same double (the one repr() and    *)
(*       the JSON encoder write) is d1.d2...dn * 10^exp, digits being      *)
(*       <<d1, ..., dn>> with d1 and dn not 0; zero has no digits and      *)
(*       exp = 0, and neg is its sign bit;                                 *)
(*   [kind |-> "inf", neg]   and   [kind |-> "nan"].                       *)
(* A decimal [d, e] is the exact number d1.d2...dn * 10^e, written the     *)
(* same way.  Digit sequences are handled position by position, so that    *)
(* no number is held in a machine integer.                                 *)
(***************************************************************************)
\* c is a decimal digit: float() reads those of every script
IsDigit(c) == \E z \in DecimalZeros : z <= c /\ c <= z + 9

DigitVal(c) == c - CHOOSE z \in DecimalZeros : z <= c /\ c <= z + 9

\* the ASCII character float() reads for c: c itself below 127, a space for
\* the white space beyond ASCII (Py_UNICODE_ISSPACE), the ASCII digit for a
\* decimal digit, a question mark (63) for any other character
ToAscii(c) ==
    IF c < 127 THEN c
    ELSE IF c \in {133, 160, 5760} \cup (8192..8202) \cup {8232, 8233, 8239, 8287, 12288}
         THEN 32
    ELSE IF IsDigit(c) THEN 48 + DigitVal(c)
    ELSE 63

AsAscii(s) == Tuple([i \in 1..Len(s) |-> ToAscii(s[i])])

\* the white space float() strips from both ends: the space and the
\* characters from the tab (9) to the carriage return (13)
Whitespace == {32} \cup (9..13)

Strip(s) ==
    LET first == CHOOSE i \in 1..(Len(s) + 1) :
                    /\ i > Len(s) \/ s[i] \notin Whitespace
                    /\ \A j \in 1..(i - 1) : s[j] \in Whitespace
        last  == CHOOSE i \in 0..Len(s) :
                    /\ i = 0 \/ s[i] \notin Whitespace
                    /\ \A j \in (i + 1)..Len(s) : s[j] \in Whitespace
    IN  SubSeq(s, first, last)

Underscore == Ord("_")

Point == Ord(".")

Minus == Ord("-")

ExponentMarks == {Ord("e"), Ord("E")}

\* an underscore is allowed between two digits only
UnderscoresOk(s) ==
    \A i \in 1..Len(s) :
        s[i] = Underscore => i > 1 /\ i < Len(s) /\ IsDigit(s[i - 1]) /\ IsDigit(s[i + 1])

DigitVals(s) == [i \in 1..Len(s) |-> DigitVal(s[i])]

FirstNonZero(d) ==
    CHOOSE i \in 1..(Len(d) + 1) :
        (i > Len(d) \/ d[i] # 0) /\ \A j \in 1..(i - 1) : d[j] = 0

LastNonZero(d) ==
    CHOOSE i \in 0..Len(d) :
        (i = 0 \/ d[i] # 0) /\ \A j \in (i + 1)..Len(d) : d[j] = 0

StripLeading(d) == SubSeq(d, FirstNonZero(d), Len(d))

StripTrailing(d) == SubSeq(d, 1, LastNonZero(d))

\* the integer a short sequence of digits spells
RECURSIVE SmallVal(_)
SmallVal(d) == IF d = <<>> THEN 0 ELSE 10 * SmallVal(SubSeq(d, 1, Len(d) - 1)) + d[Len(d)]

\* the exponent the digits spell, as float() reads it: an exponent of more
\* than nine digits, leading zeros apart, is read as 1100000000
ExponentVal(d) ==
    IF Len(StripLeading(d)) > 9 THEN 1100000000 ELSE SmallVal(StripLeading(d))

\* the decimal of the integer with digits m, times 10^e
Decimal(m, e) ==
    LET lead == StripLeading(m)
    IN  [d |-> StripTrailing(lead), e |-> IF lead = <<>> THEN 0 ELSE Len(lead) - 1 + e]

\* 2 * x: each digit doubled, plus the carry of the digit to its right
Times2(x) ==
    LET n == Len(x.d)
        raw == [i \in 1..n |-> ((2 * x.d[i]) % 10) + (IF i < n /\ x.d[i + 1] >= 5 THEN 1 ELSE 0)]
    IN  IF n = 0 THEN x
        ELSE IF x.d[1] >= 5 THEN [d |-> StripTrailing(<<1>> \o raw), e |-> x.e + 1]
        ELSE [d |-> StripTrailing(Tuple(raw)), e |-> x.e]

\* x / 2: each digit halved, plus the remainder of the digit to its left
Half(x) ==
    LET n == Len(x.d)
        raw == [i \in 1..n |-> (x.d[i] + (IF i > 1 /\ x.d[i - 1] % 2 = 1 THEN 10 ELSE 0)) \div 2]
        all == IF x.d[n] % 2 = 1 THEN raw \o <<5>> ELSE Tuple(raw)
    IN  IF n = 0 THEN x
        ELSE IF all[1] = 0 THEN [d |-> Tail(all), e |-> x.e - 1]
        ELSE [d |-> all, e |-> x.e]

\* x * 2^j
RECURSIVE Scale(_, _)
Scale(x, j) ==
    IF x.d = <<>> \/ j = 0 THEN x
    ELSE IF j = 1 THEN Times2(x)
    ELSE IF j = -1 THEN Half(x)
    ELSE LET h == j \div 2
             y == Scale(x, h)
         IN  Scale(y, j - h)

\* -1, 0 or 1 as a < b, a = b or a > b
Compare(a, b) ==
    LET n == IF Len(a.d) > Len(b.d) THEN Len(a.d) ELSE Len(b.d)
        da(i) == IF i <= Len(a.d) THEN a.d[i] ELSE 0
        db(i) == IF i <= Len(b.d) THEN b.d[i] ELSE 0
        at == CHOOSE i \in 1..(n + 1) :
                  (i > n \/ da(i) # db(i)) /\ \A j \in 1..(i - 1) : da(j) = db(j)
    IN  IF a.d = <<>> /\ b.d = <<>> THEN 0
        ELSE IF a.d = <<>> THEN -1
        ELSE IF b.d = <<>> THEN 1
        ELSE IF a.e # b.e THEN (IF a.e < b.e THEN -1 ELSE 1)
        ELSE IF at > n THEN 0
        ELSE IF da(at) < db(at) THEN -1 ELSE 1

\* the digits of the integer part of x
IntegerPart(x) ==
    IF x.d = <<>> \/ x.e < 0 THEN <<>>
    ELSE [i \in 1..(x.e + 1) |-> IF i <= Len(x.d) THEN x.d[i] ELSE 0]

\* the digits of x after the point
FractionPart(x) ==
    IF x.d = <<>> THEN <<>>
    ELSE IF x.e < 0 THEN [i \in 1..(-x.e - 1) |-> 0] \o x.d
    ELSE SubSeq(x.d, x.e + 2, Len(x.d))

\* the digits of m + 1
Increment(m) ==
    LET low == {i \in 1..Len(m) : m[i] # 9}
    IN  IF low = {} THEN <<1>> \o [i \in 1..Len(m) |-> 0]
        ELSE [i \in 1..Len(m) |->
                 IF i < Max(low) THEN m[i] ELSE IF i = Max(low) THEN m[i] + 1 ELSE 0]

\* the digits of m - 1, for m > 0
Decrement(m) ==
    LET high == Max({i \in 1..Len(m) : m[i] # 0})
    IN  StripLeading([i \in 1..Len(m) |->
                         IF i < high THEN m[i] ELSE IF i = high THEN m[i] - 1 ELSE 9])

\* -1, 0 or 1 as the fraction 0.f1f2... is below, at or above one half
AgainstHalf(f) ==
    IF f = <<>> \/ f[1] < 5 THEN -1
    ELSE IF f[1] = 5 /\ Len(f) = 1 THEN 0
    ELSE 1

IsOdd(m) == m # <<>> /\ m[Len(m)] % 2 = 1

\* the integer nearest to x, the even one of two equally near
RoundHalfEven(x) ==
    LET m == IntegerPart(x)
        side == AgainstHalf(StripTrailing(FractionPart(x)))
    IN  IF side > 0 \/ (side = 0 /\ IsOdd(m)) THEN Increment(m) ELSE Tuple(m)

\* a double is m * 2^k with m < 2^53, and m >= 2^52 unless k is the least exponent
TwoTo52 == Decimal(<<4,5,0,3,5,9,9,6,2,7,3,7,0,4,9,6>>, 0)

TwoTo53 == Decimal(<<9,0,0,7,1,9,9,2,5,4,7,4,0,9,9,2>>, 0)

MinExponent == -1074

MaxExponent == 971

\* x * 2^k brought to x' * 2^k' with x' in [2^52, 2^53), or k' the least exponent
RECURSIVE Normal(_, _)
Normal(x, k) ==
    IF Compare(x, TwoTo53) >= 0 THEN Normal(Half(x), k + 1)
    ELSE IF Compare(x, TwoTo52) < 0 /\ k > MinExponent THEN Normal(Times2(x), k - 1)
    ELSE [x |-> x, k |-> k]

\* an exponent below the one of the double nearest to x > 0, not below the
\* least: 3322/1000 > log2(10) bounds the binary exponent of x by its decimal one
FirstExponent(x) == Max({MinExponent, (x.e * 3322) \div 1000 - 54})

\* m * 2^k with m of 53 bits: when rounding carried m to 2^53 it is 2^52 * 2^(k+1)
Carry(m, k) ==
    IF Compare(Decimal(m, 0), TwoTo53) = 0
    THEN [m |-> IntegerPart(TwoTo52), k |-> k + 1]
    ELSE [m |-> m, k |-> k]

\* n.x * 2^(n.k) with n.x rounded to an integer
Rounded(n) == Carry(RoundHalfEven(n.x), n.k)

\* the m and k of the double nearest to x > 0, ties to the even m
Nearest(x) == Rounded(Normal(Scale(x, -FirstExponent(x)), FirstExponent(x)))

\* x cut to n digits, and the next decimal of n digits above it
Floor(x, n) == [d |-> StripTrailing(SubSeq(x.d, 1, n)), e |-> x.e]

Ceiling(x, n) ==
    LET up == Increment(SubSeq(x.d, 1, n))
    IN  IF Len(up) > n THEN [d |-> <<1>>, e |-> x.e + 1]
        ELSE [d |-> StripTrailing(up), e |-> x.e]

\* the digits of 2 * m
Twice(m) == IntegerPart(Times2(Decimal(m, 0)))

\* the midpoint of the double m * 2^k and the next double above: (2m + 1) * 2^(k-1)
Above(m, k) == Scale(Decimal(Increment(Twice(m)), 0), k - 1)

\* the midpoint of the double m * 2^k and the next double below, which is
\* half as far when m is 2^52: (4m - 1) * 2^(k-2), otherwise (2m - 1) * 2^(k-1)
Below(m, k) ==
    IF Compare(Decimal(m, 0), TwoTo52) = 0 /\ k > MinExponent
    THEN Scale(Decimal(Decrement(Twice(Twice(m))), 0), k - 2)
    ELSE Scale(Decimal(Decrement(Twice(m)), 0), k - 1)

\* y lies between the midpoints, which count when closed (m is even: a tie
\* rounds to the even m)
Inside(low, y, high, closed) ==
    /\ Compare(low, y) < (IF closed THEN 1 ELSE 0)
    /\ Compare(y, high) < (IF closed THEN 1 ELSE 0)

\* some decimal of n digits reads back as the double of value v
Reads(v, n, low, high, closed) ==
    \/ n >= Len(v.d)
    \/ Inside(low, Floor(v, n), high, closed)
    \/ Inside(low, Ceiling(v, n), high, closed)

\* the decimal of n digits nearest to v of those that read back as it
NearestOf(v, n, low, high, closed) ==
    IF n >= Len(v.d) THEN v
    ELSE IF ~Inside(low, Ceiling(v, n), high, closed) THEN Floor(v, n)
    ELSE IF ~Inside(low, Floor(v, n), high, closed) THEN Ceiling(v, n)
    ELSE IF AgainstHalf(SubSeq(v.d, n + 1, Len(v.d))) > 0 THEN Ceiling(v, n)
    ELSE IF AgainstHalf(SubSeq(v.d, n + 1, Len(v.d))) = 0 /\ v.d[n] % 2 = 1 THEN Ceiling(v, n)
    ELSE Floor(v, n)

\* the shortest decimal between the midpoints, the nearest to v of those; 17
\* digits tell any two doubles apart
ShortestOf(v, low, high, closed) ==
    NearestOf(v, Min({n \in 1..17 : Reads(v, n, low, high, closed)}), low, high, closed)

\* the shortest decimal that reads back as the double m * 2^k, the nearest to
\* it of those: a decimal reads back as it when it lies between the midpoints
\* to the two neighbouring doubles
Shortest(m, k) == ShortestOf(Scale(Decimal(m, 0), k), Below(m, k), Above(m, k), ~IsOdd(m))

Finite(neg, x) == [kind |-> "finite", neg |-> neg, digits |-> x.d, exp |-> x.e]

Infinite(neg) == [kind |-> "inf", neg |-> neg]

NaN == [kind |-> "nan"]

\* the double m * 2^k as a float: zero when m is, inf when k is past the greatest
FromBinary(neg, near) ==
    IF near.m = <<>> THEN Finite(neg, Decimal(<<>>, 0))
    ELSE IF near.k > MaxExponent THEN Infinite(neg)
    ELSE Finite(neg, Shortest(near.m, near.k))

\* the double nearest to the decimal x, with sign bit neg.  A decimal of at
\* most 15 digits within the normal range is itself the shortest decimal of
\* the double nearest to it; one beyond the range of doubles is inf or zero
\* whatever its digits
Double(neg, x) ==
    IF x.d = <<>> THEN Finite(neg, x)
    ELSE IF Len(x.d) <= 15 /\ x.e >= -307 /\ x.e <= 307 THEN Finite(neg, x)
    ELSE IF x.e > 309 THEN Infinite(neg)
    ELSE IF x.e < -325 THEN Finite(neg, Decimal(<<>>, 0))
    ELSE FromBinary(neg, Nearest(x))

\* the position of the first e or E of s, of the first point (Len(s) + 1 if none)
ExponentAt(s) == Min({j \in 1..(Len(s) + 1) : j > Len(s) \/ s[j] \in ExponentMarks})

PointAt(s) == Min({j \in 1..(Len(s) + 1) : j > Len(s) \/ s[j] = Point})

\* a number is a mantissa, then possibly e or E and an exponent
Mantissa(s) == SubSeq(s, 1, ExponentAt(s) - 1)

ExponentPart(s) == SubSeq(s, ExponentAt(s) + 1, Len(s))

AllDigits(s) == \A i \in 1..Len(s) : IsDigit(s[i])

\* digits with at most one point among them, and at least one digit
IsMantissa(m) ==
    /\ AllDigits(SubSeq(m, 1, PointAt(m) - 1))
    /\ AllDigits(SubSeq(m, PointAt(m) + 1, Len(m)))
    /\ Len(m) > (IF PointAt(m) <= Len(m) THEN 1 ELSE 0)

\* e without its sign
Unsigned(e) == IF e # <<>> /\ e[1] \in {Ord("+"), Ord("-")} THEN Tail(e) ELSE e

\* the digits after the point
FracDigits(m) == DigitVals(SubSeq(m, PointAt(m) + 1, Len(m)))

\* a mantissa, and an exponent of an optional sign and at least one digit;
\* float() rejects a mantissa of more than 1000000000 digits, leading zeros
\* apart, or of more than 1000000000 digits after the point
IsNumber(s) ==
    /\ IsMantissa(Mantissa(s))
    /\ Len(StripLeading(DigitVals(SelectSeq(Mantissa(s), IsDigit)))) <= 1000000000
    /\ Len(FracDigits(Mantissa(s))) <= 1000000000
    /\ \/ ExponentAt(s) > Len(s)
       \/ /\ Unsigned(ExponentPart(s)) # <<>>
          /\ AllDigits(Unsigned(ExponentPart(s)))

\* the integer an exponent spells, 0 when there is none
ExponentOf(e) ==
    IF e = <<>> THEN 0
    ELSE IF e[1] = Minus THEN -ExponentVal(DigitVals(Unsigned(e)))
    ELSE ExponentVal(DigitVals(Unsigned(e)))

\* the double a number spells: its digits, point dropped, times ten to the
\* exponent less the number of digits after the point
Number(neg, s) ==
    Double(neg, Decimal(DigitVals(SubSeq(Mantissa(s), 1, PointAt(Mantissa(s)) - 1))
                            \o FracDigits(Mantissa(s)),
                        ExponentOf(ExponentPart(s)) - Len(FracDigits(Mantissa(s)))))

\* s with the letters A-Z in lower case
AsciiLower(s) == [i \in 1..Len(s) |-> IF 65 <= s[i] /\ s[i] <= 90 THEN s[i] + 32 ELSE s[i]]

\* the float an optional sign neg and a body spell, s being the string read
Signed(s, neg, body) ==
    IF AsciiLower(body) \in {Chars("inf"), Chars("infinity")} THEN Ok(Infinite(neg))
    ELSE IF AsciiLower(body) = Chars("nan") THEN Ok(NaN)
    ELSE IF IsNumber(body) THEN Ok(Number(neg, body))
    ELSE Raise(ValueError(s))

Bare(s, bare) == Signed(s, bare # <<>> /\ bare[1] = Minus, Unsigned(bare))

\* float(s) of a string s read as the ASCII string ascii
FloatOf(s, ascii) ==
    IF ~UnderscoresOk(ascii) THEN Raise(ValueError(s))
    ELSE Bare(s, SelectSeq(Strip(ascii), LAMBDA c : c # Underscore))

\* float(s) of a string s: the decimal digits and the white space of every
\* script read as those of ASCII, white space stripped, underscores between
\* digits dropped, an optional sign, then inf, infinity or nan in any case,
\* or a number
Float(s) == FloatOf(s, AsAscii(s))

\* float(attrib.get(key, 0)): the default is the integer 0, and float(0) is 0.0
FloatAttr(attrib, key) ==
    IF key \in DOMAIN attrib THEN Float(attrib[key]) ELSE Ok(Finite(FALSE, Decimal(<<>>, 0)))

\* x or "" for an optional string x
OrEmpty(x) == IF x.some /\ x.val # <<>> THEN x.val ELSE <<>>

(***************************************************************************)
(* The XML document, as xml.etree.ElementTree presents it                  *)
(***************************************************************************)
\* an Element: its tag, its attrib dict, its text (None when it has none)
\* and the list of its child elements
Element(tag, attrib, text, children) ==
    [tag |-> tag, attrib |-> attrib, text |-> text, children |-> children]

\* root.findall(tag): the direct children of root with that tag, in document order
RECURSIVE FindAllIn(_, _)
FindAllIn(children, tag) ==
    IF children = <<>> THEN <<>>
    ELSE IF Head(children).tag = tag
         THEN <<Head(children)>> \o FindAllIn(Tail(children), tag)
         ELSE FindAllIn(Tail(children), tag)

StartDurationText(start, dur, text) ==
    IF ~start.ok THEN start
    ELSE IF ~dur.ok THEN dur
    ELSE Ok([start |-> start.val, duration |-> dur.val, text |-> text])

\* one entry of parsed_captions; float(start) is evaluated before float(dur)
CaptionRecord(text) ==
    StartDurationText(FloatAttr(text.attrib, "start"), FloatAttr(text.attrib, "dur"),
                      OrEmpty(text.text))

\* the list comprehension over root.findall("text")
RECURSIVE CaptionRecords(_)
CaptionRecords(elements) ==
    IF elements = <<>> THEN Ok(<<>>)
    ELSE Cons(CaptionRecord(Head(elements)), CaptionRecords(Tail(elements)))

\* ET.fromstring(raw_captions): the root element, or ParseError on a body
\* that is not well-formed XML
FromString(raw) == IF raw.wellformed THEN Ok(raw.root) ELSE Raise(ParseError(raw.error))

\* a variant of NonEmptyTexts that keeps the empty texts
RECURSIVE AllTexts(_)
AllTexts(parsed_captions) ==
    IF parsed_captions = <<>> THEN <<>>
    ELSE <<Head(parsed_captions).text>> \o AllTexts(Tail(parsed_captions))

\* the generator of the join: text["text"] for text in parsed_captions if text["text"]
RECURSIVE NonEmptyTexts(_)
NonEmptyTexts(parsed_captions) ==
    IF parsed_captions = <<>> THEN <<>>
    ELSE IF Head(parsed_captions).text # <<>>
         THEN <<Head(parsed_captions).text>> \o NonEmptyTexts(Tail(parsed_captions))
         ELSE NonEmptyTexts(Tail(parsed_captions))

Space == Chars(" ")

Apostrophe == Chars("&#39;")

Semicolon == Chars(" ; ")

TwoSpaces == Chars("  ")

\* concatenated_text of the non-timestamp mode
ConcatenatedText(parsed_captions) ==
    LET joined   == Join(Space, NonEmptyTexts(parsed_captions))
        unquoted == Replace(joined, Apostrophe, Semicolon)
    IN  Replace(unquoted, Chars("\n"), TwoSpaces)

(***************************************************************************)
(* The request and the responses                                           *)
(***************************************************************************)
\* headers.get(key) and args.get(key): None when the key is absent
Lookup(d, key) == IF key \in DOMAIN d THEN Some(d[key]) ELSE None

\* a variant of Truthy that tests for None only ("is not None")
TruthyNotNone(x) == x.some

\* Python truth of an optional string: None and "" are false
Truthy(x) == x.some /\ x.val # ""

\* (jsonify(body), status)
Response(status, body) == [status |-> status, body |-> body]

\* a variant of validate_api_key that lets a request without the header pass
validate_api_key_lenient(req) ==
    LET provided_key == Lookup(req.headers, "x-api-key")
    IN  provided_key = API_KEY \/ ~provided_key.some

validate_api_key(req) ==
    LET provided_key == Lookup(req.headers, "x-api-key")
    IN  provided_key = API_KEY

Unauthorized == Response(403, [error |-> "Unauthorized access. Invalid API key."])

Welcome ==
    Response(200,
        [message   |-> "Welcome to the YouTube Caption API Service.",
         endpoints |->
            ("/captions" :>
                [description |-> "Fetch and parse captions for a YouTube video.",
                 parameters  |->
                    [video_id   |-> "Required. The YouTube video ID.",
                     language   |-> "Optional. The language code to fetch captions in a specific language.",
                     timestamps |-> "Optional. Set to 'true' to include timestamps in the response."],
                 notes |-> "If the 'language' parameter is not provided, the API returns available languages for the video."]),
         status    |-> "API is operational."])

MissingVideoId == Response(400, [error |-> "Missing video_id parameter"])

\* the except clause: jsonify({'error': str(e)}), 500
ServerError(e) == Response(500, [error |-> Str(e)])

DefaultTimestamps == Chars("false")

TrueWord == Chars("true")

\* a variant of Timestamps that compares without lower()
TimestampsCaseSensitive(req) == Get(req.args, "timestamps", DefaultTimestamps) = TrueWord

\* timestamps = request.args.get('timestamps', 'false').lower() == 'true'
Timestamps(req) == Lower(Get(req.args, "timestamps", DefaultTimestamps)) = TrueWord

\* thumbnails[-1]["url"], or the default when the list is empty
LastUrl(thumbnails, default) ==
    IF thumbnails # <<>> THEN Item(Last(thumbnails), "url") ELSE Ok(default)

Info(video_details, thumbnail, channel_logo) ==
    IF ~thumbnail.ok THEN thumbnail
    ELSE IF ~channel_logo.ok THEN channel_logo
    ELSE Ok([video_title  |-> Get(video_details, "title", "Unknown Title"),
             thumbnail    |-> thumbnail.val,
             channel_name |-> Get(video_details, "author", "Unknown Channel"),
             channel_logo |-> channel_logo.val])

VideoDetails(video_details) ==
    Info(video_details,
         LastUrl(Get(Get(video_details, "thumbnail", <<>>), "thumbnails", <<>>),
                 "No Thumbnail Available"),
         LastUrl(Get(Get(Get(Get(video_details, "channelThumbnailSupportedRenderers", <<>>),
                             "channelThumbnailWithLinkRenderer", <<>>),
                         "thumbnail", <<>>),
                     "thumbnails", <<>>),
                 "No Channel Logo Available"))

\* video_title, thumbnail, channel_name and channel_logo of the metadata
\* (lines 74-89); thumbnails[-1]["url"] raises KeyError on an entry without url
VideoInfo(data) == VideoDetails(Get(data, "videoDetails", <<>>))

\* captions = player_data.get("captions", {}).get(...).get("captionTracks", [])
CaptionTracks(data) ==
    Get(Get(Get(data, "captions", <<>>), "playerCaptionsTracklistRenderer", <<>>),
        "captionTracks", <<>>)

LanguageCodeAndName(languageCode, simpleText) ==
    IF ~simpleText.ok THEN simpleText
    ELSE Ok([languageCode |-> languageCode, name |-> simpleText.val])

NameOf(name) == IF ~name.ok THEN name ELSE Item(name.val, "simpleText")

\* one entry of available_languages: caption['languageCode'] is evaluated
\* first, then caption['name'], then its ['simpleText']
AvailableLanguage(caption) ==
    IF "languageCode" \notin DOMAIN caption THEN Raise(KeyError("languageCode"))
    ELSE LanguageCodeAndName(caption.languageCode, NameOf(Item(caption, "name")))

\* a variant of AvailableLanguages that lists the tracks last to first
RECURSIVE AvailableLanguagesReversed(_)
AvailableLanguagesReversed(captions) ==
    IF captions = <<>> THEN Ok(<<>>)
    ELSE Cons(AvailableLanguage(Last(captions)),
              AvailableLanguagesReversed(SubSeq(captions, 1, Len(captions) - 1)))

\* the list comprehension of lines 104-110
RECURSIVE AvailableLanguages(_)
AvailableLanguages(captions) ==
    IF captions = <<>> THEN Ok(<<>>)
    ELSE Cons(AvailableLanguage(Head(captions)), AvailableLanguages(Tail(captions)))

\* a variant of SelectedCaption that keeps the last matching track
RECURSIVE SelectedCaptionLast(_, _)
SelectedCaptionLast(captions, selected_language) ==
    IF captions = <<>> THEN Ok(None)
    ELSE IF "languageCode" \notin DOMAIN Last(captions) THEN Raise(KeyError("languageCode"))
    ELSE IF Last(captions).languageCode = selected_language THEN Ok(Some(Last(captions)))
    ELSE SelectedCaptionLast(SubSeq(captions, 1, Len(captions) - 1), selected_language)

\* next((c for c in captions if c['languageCode'] == selected_language), None);
\* c['languageCode'] raises KeyError on a track without it that comes before
\* the first match
RECURSIVE SelectedCaption(_, _)
SelectedCaption(captions, selected_language) ==
    IF captions = <<>> THEN Ok(None)
    ELSE IF "languageCode" \notin DOMAIN Head(captions) THEN Raise(KeyError("languageCode"))
    ELSE IF Head(captions).languageCode = selected_language THEN Ok(Some(Head(captions)))
    ELSE SelectedCaption(Tail(captions), selected_language)

\* a variant of NoCaptions that answers an empty listing
NoCaptionsAsEmptyListing(data) ==
    Response(200, [available_languages |-> <<>>] @@ VideoInfo(data).val)

NoCaptions(data) ==
    Response(404, [error |-> "No captions available for this video."] @@ VideoInfo(data).val)

Listing(req, data, available_languages) ==
    IF ~available_languages.ok THEN ServerError(available_languages.exc)
    ELSE Response(200, [video_id |-> req.args.video_id,
                        available_languages |-> available_languages.val]
                       @@ VideoInfo(data).val)

\* lines 103-118: the listing of the languages
Languages(req, data) == Listing(req, data, AvailableLanguages(CaptionTracks(data)))

NoSuchLanguage(req, data) ==
    Response(404,
        [error |-> "No captions available for the selected language: " \o req.args.language]
        @@ VideoInfo(data).val)

\* lines 150-178: the response of either mode
Captions(req, data, parsed_captions) ==
    IF ~parsed_captions.ok THEN ServerError(parsed_captions.exc)
    ELSE IF Timestamps(req)
    THEN Response(200, [video_id |-> req.args.video_id, languageCode |-> req.args.language,
                        timestamped_captions |-> parsed_captions.val]
                       @@ VideoInfo(data).val)
    ELSE Response(200, [video_id |-> req.args.video_id, languageCode |-> req.args.language,
                        captions |-> ConcatenatedText(parsed_captions.val)]
                       @@ VideoInfo(data).val)

Parsed(req, data, root) ==
    IF ~root.ok THEN ServerError(root.exc)
    ELSE Captions(req, data, CaptionRecords(FindAllIn(root.val.children, "text")))

\* lines 139-178: parse the body fetched and build the response
Transcript(req, data, raw) == Parsed(req, data, FromString(raw))

(***************************************************************************)
(* The inputs: requests, metadata responses, caption documents, failures   *)
(***************************************************************************)
MaxTracks == 2

MaxElems == 2

MaxParseElems == 3

SeqsUpTo(S, n) == UNION {[1..k -> S] : k \in 0..n}

ApiKeys == {None, Some("secret")}

Routes == {"/", "/captions"}

HeaderSets ==
    {<<>>} \cup {("x-api-key" :> k) : k \in {"secret", "Secret", ""}}

VideoIdArgs == {<<>>} \cup {[video_id |-> v] : v \in {"", "dQw4w9WgXcQ"}}

LanguageArgs == {<<>>} \cup {[language |-> l] : l \in {"", "en", "de"}}

\* 'true', 'TrUE', 'false', 'true ', 'TR\u00dcE' (U with diaeresis) and ''
TimestampsArgs ==
    {<<>>} \cup {[timestamps |-> t] : t \in {Chars("true"), Chars("TrUE"), Chars("false"),
                                             Chars("true "), <<84, 82, 220, 69>>, <<>>}}


Requests ==
    {[route |-> r, headers |-> h, args |-> v @@ l @@ t] :
        r \in Routes, h \in HeaderSets,
        v \in VideoIdArgs, l \in LanguageArgs, t \in TimestampsArgs}

Track(languageCode, name, baseUrl) ==
    [languageCode |-> languageCode, name |-> [simpleText |-> name], baseUrl |-> baseUrl]

\* two tracks share a language code, one differs from it in case only, one
\* extends it; four tracks lack a key the code reads
Tracks ==
    {Track("en", "English", "https://video.example/api/timedtext?v=1"),
     Track("en", "English (auto-generated)", "https://video.example/api/timedtext?v=2"),
     Track("EN", "English (upper)", "https://video.example/api/timedtext?v=3"),
     Track("en-US", "English (United States)", "https://video.example/api/timedtext?v=4"),
     \* a track whose name comes as text runs, without simpleText
     [languageCode |-> "en", name |-> [runs |-> <<[text |-> "English"]>>],
      baseUrl |-> "https://video.example/api/timedtext?v=5"],
     \* a track without languageCode, one without name, one without baseUrl
     [name |-> [simpleText |-> "German"], baseUrl |-> "https://video.example/api/timedtext?v=6"],
     [languageCode |-> "de", baseUrl |-> "https://video.example/api/timedtext?v=7"],
     [languageCode |-> "de", name |-> [simpleText |-> "German"]]}

\* the "captions" part of the metadata: the path is cut at each level, or
\* leads to a list of tracks (the empty list included)
CaptionsParts ==
    {<<>>, [captions |-> <<>>], [captions |-> [playerCaptionsTracklistRenderer |-> <<>>]]}
    \cup {[captions |-> [playerCaptionsTracklistRenderer |-> [captionTracks |-> ts]]] :
            ts \in SeqsUpTo(Tracks, MaxTracks)}

\* a thumbnail dict of those entries
Thumbs(entries) == [thumbnails |-> entries]

\* the "videoDetails" part of the metadata: absent, bare, complete, and with
\* an entry without url among the thumbnails of the video or of the channel,
\* last in the list or not
VideoDetailsParts ==
    {<<>>,
     [videoDetails |-> [title |-> "A title", thumbnail |-> Thumbs(<<>>)]],
     [videoDetails |->
        [title |-> "A title", author |-> "A channel",
         thumbnail |-> Thumbs(<<[url |-> "https://i.example/small.jpg"],
                                [url |-> "https://i.example/large.jpg"]>>),
         channelThumbnailSupportedRenderers |->
            [channelThumbnailWithLinkRenderer |->
                [thumbnail |-> Thumbs(<<[url |-> "https://i.example/logo.jpg"]>>)]]]],
     [videoDetails |->
        [title |-> "A title", author |-> "A channel",
         thumbnail |-> Thumbs(<<[url |-> "https://i.example/small.jpg"], [width |-> 1280]>>),
         channelThumbnailSupportedRenderers |->
            [channelThumbnailWithLinkRenderer |->
                [thumbnail |-> Thumbs(<<[url |-> "https://i.example/logo.jpg"]>>)]]]],
     [videoDetails |->
        [title |-> "A title", author |-> "A channel",
         thumbnail |-> Thumbs(<<[width |-> 120], [url |-> "https://i.example/large.jpg"]>>),
         channelThumbnailSupportedRenderers |->
            [channelThumbnailWithLinkRenderer |->
                [thumbnail |-> Thumbs(<<[width |-> 88]>>)]]]]}

PlayerDatas == {v @@ c : v \in VideoDetailsParts, c \in CaptionsParts}

TextElement(attrib, text, children) == Element("text", attrib, text, children)

\* the elements a caption document is made of
Elems ==
    {TextElement([start |-> Chars("0"), dur |-> Chars("1.5")], Some(Chars("Hi")), <<>>),
     TextElement([start |-> Chars("1.5"), dur |-> Chars("2.25")], Some(Chars("it&#39;s")), <<>>),
     \* start is 12 in Extended Arabic-Indic digits
     TextElement([start |-> <<1777, 1778>>], Some(Chars("a\nb")), <<>>),
     TextElement([dur |-> Chars(".5")], Some(Chars("&#3")), <<>>),
     TextElement(<<>>, Some(Chars("9;\n")), <<>>),
     TextElement([start |-> Chars("-1"), dur |-> Chars("1e3")], None, <<>>),
     \* start is 4 between a no-break space and a newline
     TextElement([start |-> <<160, 52, 10>>, dur |-> Chars("+1_0.")], Some(<<>>), <<>>),
     \* start is a, a single quote and the delete character
     TextElement([start |-> <<97, 39, 127>>, dur |-> Chars("1")], Some(Chars("x")), <<>>),
     TextElement([start |-> Chars("5"), dur |-> <<>>], Some(Chars("y")), <<>>),
     TextElement([start |-> Chars("inf"), dur |-> Chars("NaN")], Some(Chars("z")), <<>>),
     TextElement([start |-> Chars("6"), dur |-> Chars("1.0005")], Some(Chars("out")),
                 <<TextElement([start |-> Chars("7")], Some(Chars("in")), <<>>)>>),
     Element("p", [start |-> Chars("8"), dur |-> Chars("1")], Some(Chars("p")), <<>>),
     Element("body", <<>>, None,
             <<TextElement([start |-> Chars("9")], Some(Chars("deep")), <<>>)>>)}

\* the elements of the documents of the request machine: one that converts
\* and one that does not
FewElems ==
    {TextElement([start |-> Chars("0"), dur |-> Chars("1.5")], Some(Chars("Hi")), <<>>),
     TextElement([start |-> Chars("abc"), dur |-> Chars("1")], Some(Chars("x")), <<>>)}

\* a body that is not well-formed XML, with what the parser says of it
Malformed == [wellformed |-> FALSE, error |-> Chars("mismatched tag: line 1, column 8")]

WellFormed(children) ==
    [wellformed |-> TRUE, root |-> Element("transcript", <<>>, None, children)]

Docs == {Malformed} \cup {WellFormed(c) : c \in SeqsUpTo(FewElems, MaxElems)}

\* what the metadata client and requests.get raise when the network fails
PlayerErrors == {[exc |-> "HTTPStatusError", arg |-> Chars("Server error '500 Internal Server Error'")]}

GetErrors == {[exc |-> "ConnectionError", arg |-> Chars("Max retries exceeded")]}

(***************************************************************************)
(* The request machine                                                     *)
(***************************************************************************)
Event(name, arg) == <<name, arg>>

Init ==
    /\ API_KEY \in ApiKeys
    /\ pc = "idle"
    /\ request = None
    /\ player_data = None
    /\ selected_caption = None
    /\ raw_captions = None
    /\ response = None
    /\ trace = <<>>

\* a request arrives
Receive(req) ==
    /\ pc = "idle"
    /\ pc' = "before_request"
    /\ request' = req
    /\ player_data' = None
    /\ selected_caption' = None
    /\ raw_captions' = None
    /\ response' = None
    /\ trace' = <<>>
    /\ UNCHANGED API_KEY

Return(resp) ==
    /\ response' = Some(resp)
    /\ pc' = "done"

enforce_api_key ==
    /\ pc = "before_request"
    /\ IF ~validate_api_key(request)
       THEN /\ Return(Unauthorized)
            /\ trace' = trace \o <<Event("response", "")>>
       ELSE /\ pc' = "dispatch"
            /\ UNCHANGED <<response, trace>>
    /\ UNCHANGED <<API_KEY, request, player_data, selected_caption, raw_captions>>

home ==
    /\ pc = "dispatch"
    /\ request.route = "/"
    /\ Return(Welcome)
    /\ trace' = trace \o <<Event("home", ""), Event("response", "")>>
    /\ UNCHANGED <<API_KEY, request, player_data, selected_caption, raw_captions>>

\* lines 61-73: up to the call of client.player
get_captions ==
    /\ pc = "dispatch"
    /\ request.route = "/captions"
    /\ LET video_id == Lookup(request.args, "video_id")
       IN  IF ~Truthy(video_id)
           THEN /\ Return(MissingVideoId)
                /\ trace' = trace \o <<Event("get_captions", ""), Event("response", "")>>
           ELSE /\ pc' = "player"
                /\ trace' = trace \o <<Event("get_captions", ""),
                                       Event("client.player", video_id.val)>>
                /\ UNCHANGED response
    /\ UNCHANGED <<API_KEY, request, player_data, selected_caption, raw_captions>>

\* the handler answers after the return of client.player
Answer(resp) ==
    /\ Return(resp)
    /\ trace' = trace \o <<Event("player.returned", ""), Event("response", "")>>

\* lines 136: requests.get(selected_caption['baseUrl']) is called, unless
\* the track has no baseUrl
Fetch(url) ==
    IF ~url.ok THEN Answer(ServerError(url.exc))
    ELSE /\ pc' = "get"
         /\ trace' = trace \o <<Event("player.returned", ""), Event("requests.get", url.val)>>
         /\ UNCHANGED response

\* lines 121-136: the track of the language is looked up
Select(data, selected) ==
    IF ~selected.ok
    THEN Answer(ServerError(selected.exc)) /\ UNCHANGED selected_caption
    ELSE IF ~selected.val.some
    THEN Answer(NoSuchLanguage(request, data)) /\ UNCHANGED selected_caption
    ELSE selected_caption' = selected.val /\ Fetch(Item(selected.val.val, "baseUrl"))

\* lines 91-136: the caption tracks are read
WithTracks(data, captions, selected_language) ==
    IF captions = <<>>
    THEN Answer(NoCaptions(data)) /\ UNCHANGED selected_caption
    ELSE IF ~Truthy(selected_language)
    THEN Answer(Languages(request, data)) /\ UNCHANGED selected_caption
    ELSE Select(data, SelectedCaption(captions, selected_language.val))

\* lines 73-136: client.player returns, up to the call of requests.get
player_returns(data) ==
    /\ pc = "player"
    /\ player_data' = Some(data)
    /\ IF ~VideoInfo(data).ok
       THEN Answer(ServerError(VideoInfo(data).exc)) /\ UNCHANGED selected_caption
       ELSE WithTracks(data, CaptionTracks(data), Lookup(request.args, "language"))
    /\ UNCHANGED <<API_KEY, request, raw_captions>>

\* client.player raises: the except clause answers
player_raises(e) ==
    /\ pc = "player"
    /\ Return(ServerError(e))
    /\ trace' = trace \o <<Event("player.raised", ""), Event("response", "")>>
    /\ UNCHANGED <<API_KEY, request, player_data, selected_caption, raw_captions>>

\* lines 136-137: requests.get returns the body
get_returns(doc) ==
    /\ pc = "get"
    /\ pc' = "parse"
    /\ raw_captions' = Some(doc)
    /\ trace' = trace \o <<Event("get.returned", "")>>
    /\ UNCHANGED <<API_KEY, request, player_data, selected_caption, response>>

\* lines 139-178: the body is parsed and the response built
parse_captions ==
    /\ pc = "parse"
    /\ Return(Transcript(request, player_data.val, raw_captions.val))
    /\ trace' = trace \o <<Event("ET.fromstring", ""), Event("response", "")>>
    /\ UNCHANGED <<API_KEY, request, player_data, selected_caption, raw_captions>>

\* a variant of get_raises that fetches again
get_raises_retry(e) ==
    /\ pc = "get"
    /\ trace' = trace \o <<Event("get.raised", ""),
                           Event("requests.get", selected_caption.val.baseUrl)>>
    /\ UNCHANGED <<API_KEY, pc, request, player_data, selected_caption, raw_captions, response>>

\* requests.get raises: the except clause answers
get_raises(e) ==
    /\ pc = "get"
    /\ Return(ServerError(e))
    /\ trace' = trace \o <<Event("get.raised", ""), Event("response", "")>>
    /\ UNCHANGED <<API_KEY, request, player_data, selected_caption, raw_captions>>

\* the response is sent and the request context is torn down: nothing of the
\* request outlives it
teardown ==
    /\ pc = "done"
    /\ pc' = "idle"
    /\ request' = None
    /\ player_data' = None
    /\ selected_caption' = None
    /\ raw_captions' = None
    /\ response' = None
    /\ trace' = <<>>
    /\ UNCHANGED API_KEY

Next ==
    \/ \E req \in Requests : Receive(req)
    \/ enforce_api_key
    \/ home
    \/ get_captions
    \/ \E data \in PlayerDatas : player_returns(data)
    \/ \E e \in PlayerErrors : player_raises(e)
    \/ \E doc \in Docs : get_returns(doc)
    \/ parse_captions
    \/ \E e \in GetErrors : get_raises(e)
    \/ teardown

Spec == Init /\ [][Next]_vars

(***************************************************************************)
(* The parsing and formatting of lines 139-178 on its own: the request     *)
(* machine stands after the return of requests.get, for one authorized     *)
(* request with a matched language, and the body is any document of up to  *)
(* MaxParseElems elements of Elems                                         *)
(***************************************************************************)
ParseData ==
    [videoDetails |-> [title |-> "A title", thumbnail |-> Thumbs(<<>>)],
     captions |-> [playerCaptionsTracklistRenderer |-> [captionTracks |->
        <<Track("en", "English", "https://video.example/api/timedtext?v=1")>>]]]

ParseRequests ==
    {[route |-> "/captions", headers |-> ("x-api-key" :> "secret"),
      args |-> [video_id |-> "dQw4w9WgXcQ", language |-> "en"] @@ t] :
        t \in TimestampsArgs}

AllDocs == {WellFormed(c) : c \in SeqsUpTo(Elems, MaxParseElems)}

ParseInit ==
    /\ API_KEY = Some("secret")
    /\ pc = "parse"
    /\ request \in ParseRequests
    /\ player_data = Some(ParseData)
    /\ selected_caption = SelectedCaption(CaptionTracks(ParseData), "en").val
    /\ raw_captions \in {Some(doc) : doc \in AllDocs}
    /\ response = None
    /\ trace = <<Event("get_captions", ""), Event("client.player", "dQw4w9WgXcQ"),
                 Event("player.returned", ""),
                 Event("requests.get", "https://video.example/api/timedtext?v=1"),
                 Event("get.returned", "")>>

ParseNext == parse_captions

ParseSpec == ParseInit /\ [][ParseNext]_vars

(***************************************************************************)
(* Properties                                                              *)
(***************************************************************************)
\* the number of events of that name in the trace of the request
Count(name) == Cardinality({i \in 1..Len(trace) : trace[i][1] = name})

Serving == pc \notin {"idle"}

\* the x-api-key header equals the configured key (both may be absent)
KeyMatches ==
    IF "x-api-key" \in DOMAIN request.headers
    THEN API_KEY.some /\ API_KEY.val = request.headers["x-api-key"]
    ELSE ~API_KEY.some

HasVideoId == "video_id" \in DOMAIN request.args /\ request.args.video_id # ""

\* an authorized GET /captions request with a video_id
CaptionsRequest == Serving /\ KeyMatches /\ request.route = "/captions" /\ HasVideoId

\* the caption tracks of the metadata response, read along the path
\* captions / playerCaptionsTracklistRenderer / captionTracks
TracksOf(data) ==
    IF "captions" \notin DOMAIN data THEN <<>>
    ELSE IF "playerCaptionsTracklistRenderer" \notin DOMAIN data.captions THEN <<>>
    ELSE IF "captionTracks" \notin DOMAIN data.captions.playerCaptionsTracklistRenderer THEN <<>>
    ELSE data.captions.playerCaptionsTracklistRenderer.captionTracks

Answered(status) == pc = "done" /\ response.some /\ response.val.status = status

\* what stands in a dict at the end of a path of keys, an empty list when a
\* key of the path is absent
RECURSIVE Along(_, _)
Along(d, path) ==
    IF path = <<>> THEN d
    ELSE IF Head(path) \notin DOMAIN d THEN <<>>
    ELSE Along(d[Head(path)], Tail(path))

\* a non-empty list of thumbnails whose last entry has no url
LastLacksUrl(thumbnails) ==
    thumbnails # <<>> /\ "url" \notin DOMAIN thumbnails[Len(thumbnails)]

\* reading the video details of the metadata response raises: the last
\* thumbnail of the video, or of the channel, has no url
DetailsFail(data) ==
    \/ LastLacksUrl(Along(data, <<"videoDetails", "thumbnail", "thumbnails">>))
    \/ LastLacksUrl(Along(data, <<"videoDetails", "channelThumbnailSupportedRenderers",
                                  "channelThumbnailWithLinkRenderer", "thumbnail",
                                  "thumbnails">>))

\* the request is answered 500 with the text of a KeyError: the key, quoted
MissingKey(key) ==
    /\ Answered(500)
    /\ response.val.body = [error |-> Chars("'" \o key \o "'")]

\* C1: a request whose x-api-key header differs from API_KEY, on any route, is
\* answered 403 with the unauthorized error by the before_request hook: no
\* route handler runs and neither client.player nor requests.get is called.
C1_UnauthorizedIsRejected ==
    (pc \notin {"idle", "before_request"} /\ ~KeyMatches) =>
        /\ Answered(403)
        /\ response.val.body = [error |-> "Unauthorized access. Invalid API key."]
        /\ Count("home") = 0
        /\ Count("get_captions") = 0
        /\ Count("client.player") = 0
        /\ Count("requests.get") = 0

C1_Witness ==
    /\ Answered(403)
    /\ API_KEY = Some("secret")
    /\ request.route = "/captions"
    /\ "x-api-key" \in DOMAIN request.headers
    /\ request.headers["x-api-key"] = "Secret"
    /\ HasVideoId

\* C2: an authorized GET /captions request whose video_id is absent or empty is
\* answered 400 'Missing video_id parameter', whatever language and timestamps
\* are, and neither client.player nor requests.get is called.
C2_VideoIdIsRequired ==
    (pc \notin {"idle", "before_request", "dispatch"} /\ KeyMatches
        /\ request.route = "/captions" /\ ~HasVideoId) =>
        /\ Answered(400)
        /\ response.val.body = [error |-> "Missing video_id parameter"]
        /\ Count("client.player") = 0
        /\ Count("requests.get") = 0

C2_Witness ==
    /\ Answered(400)
    /\ KeyMatches
    /\ "video_id" \in DOMAIN request.args
    /\ request.args.video_id = ""
    /\ "language" \in DOMAIN request.args
    /\ request.args.language = "en"
    /\ "timestamps" \in DOMAIN request.args

\* a track has what a listing reads of it
Listable(track) ==
    /\ "languageCode" \in DOMAIN track
    /\ "name" \in DOMAIN track
    /\ "simpleText" \in DOMAIN track.name

\* the first key of a track that a listing reads and does not find
FirstMissing(track) ==
    IF "languageCode" \notin DOMAIN track THEN "languageCode"
    ELSE IF "name" \notin DOMAIN track THEN "name"
    ELSE "simpleText"

\* the response lists one {languageCode, name} entry per track, in track order
ListsLanguages(tracks) ==
    /\ Answered(200)
    /\ "available_languages" \in DOMAIN response.val.body
    /\ LET listed == response.val.body.available_languages
       IN  /\ Len(listed) = Len(tracks)
           /\ \A i \in 1..Len(tracks) :
                /\ Listable(tracks[i])
                /\ DOMAIN listed[i] = {"languageCode", "name"}
                /\ listed[i].languageCode = tracks[i].languageCode
                /\ listed[i].name = tracks[i].name.simpleText

\* C3 as stated: an authorized GET /captions request with a video_id and no
\* language parameter is answered with available_languages, one entry per
\* caption track of the metadata response, in the order of the tracks.
C3_AsStated ==
    (pc = "done" /\ CaptionsRequest /\ "language" \notin DOMAIN request.args) =>
        ListsLanguages(IF player_data.some THEN TracksOf(player_data.val) ELSE <<>>)

\* C3 amended: an authorized GET /captions request with a video_id and no
\* language parameter is answered, in this order of precedence: 500 when the
\* metadata call raised; 500 with the text 'url' when the last thumbnail of
\* the video or of the channel has no url; 404 'No captions available for
\* this video.' when the metadata response has no caption track; 500 naming
\* the first key missing (languageCode, then name, then simpleText) of the
\* first track that lacks one; and otherwise 200 with available_languages,
\* one {languageCode, name} entry per track, in the order of the tracks.  No
\* caption document is fetched in any of these cases.
C3_LanguagesAreListed ==
    (pc = "done" /\ CaptionsRequest /\ "language" \notin DOMAIN request.args) =>
        /\ Count("requests.get") = 0
        /\ IF ~player_data.some THEN Answered(500) /\ Count("player.raised") = 1
           ELSE IF DetailsFail(player_data.val) THEN MissingKey("url")
           ELSE IF TracksOf(player_data.val) = <<>>
           THEN /\ Answered(404)
                /\ response.val.body.error = "No captions available for this video."
           ELSE LET tracks == TracksOf(player_data.val)
                    incomplete == {i \in 1..Len(tracks) : ~Listable(tracks[i])}
                IN  IF incomplete # {}
                    THEN MissingKey(FirstMissing(tracks[Min(incomplete)]))
                    ELSE ListsLanguages(tracks)

C3_Witness ==
    /\ Answered(200)
    /\ CaptionsRequest
    /\ "language" \notin DOMAIN request.args
    /\ player_data.some
    /\ Len(TracksOf(player_data.val)) = 2
    /\ TracksOf(player_data.val)[1].languageCode = "EN"
    /\ TracksOf(player_data.val)[2].languageCode = "en"
    /\ Len(response.val.body.available_languages) = 2

\* a listing that fails on its second track, which has no name
C3_WitnessMissingKey ==
    /\ CaptionsRequest
    /\ "language" \notin DOMAIN request.args
    /\ player_data.some
    /\ ~DetailsFail(player_data.val)
    /\ Len(TracksOf(player_data.val)) = 2
    /\ Listable(TracksOf(player_data.val)[1])
    /\ "name" \notin DOMAIN TracksOf(player_data.val)[2]
    /\ MissingKey("name")

\* the spellings of 'true' that differ in case only
TrueSpellings ==
    {Chars(t \o r \o u \o e) : t \in {"t", "T"}, r \in {"r", "R"}, u \in {"u", "U"}, e \in {"e", "E"}}


WantsTimestamps ==
    "timestamps" \in DOMAIN request.args /\ request.args.timestamps \in TrueSpellings

\* C4: a successful response for a matched language holds exactly one of
\* 'timestamped_captions' and 'captions': the list of start/duration/text
\* records if and only if the timestamps parameter equals 'true' up to case,
\* and otherwise (any other value, or no parameter) the concatenated text.
C4_TimestampsSelectTheMode ==
    (CaptionsRequest /\ Answered(200) /\ selected_caption.some) =>
        LET body == response.val.body
        IN  /\ ("timestamped_captions" \in DOMAIN body) <=> WantsTimestamps
            /\ ("captions" \in DOMAIN body) <=> ~WantsTimestamps
            /\ "timestamped_captions" \in DOMAIN body =>
                \A i \in 1..Len(body.timestamped_captions) :
                    DOMAIN body.timestamped_captions[i] = {"start", "duration", "text"}

C4_Witness ==
    /\ CaptionsRequest
    /\ Answered(200)
    /\ selected_caption.some
    /\ "timestamps" \in DOMAIN request.args
    /\ request.args.timestamps = Chars("TrUE")
    /\ "timestamped_captions" \in DOMAIN response.val.body
    /\ Len(response.val.body.timestamped_captions) = 2

\* the positions of the events of that name in the trace
Positions(name) == {i \in 1..Len(trace) : trace[i][1] = name}

\* C5: within one /captions request at most one client.player call and at
\* most one requests.get call are made; requests.get is called only after
\* client.player has returned and a track of the requested language has been
\* found, with that track's baseUrl; at most one document is parsed, after
\* the fetch has returned, and the parse is followed by exactly one response,
\* the only response of the request.
C5_CallsAreSequentialAndBounded ==
    (Serving /\ request.route = "/captions") =>
        /\ Count("client.player") <= 1
        /\ Count("requests.get") <= 1
        /\ Count("ET.fromstring") <= 1
        /\ Count("response") = (IF pc = "done" THEN 1 ELSE 0)
        /\ pc = "done" => trace[Len(trace)][1] = "response"
        /\ \A i \in Positions("requests.get") :
            /\ \E j \in Positions("client.player") : \E k \in Positions("player.returned") :
                    j < k /\ k < i
            /\ player_data.some
            /\ selected_caption.some
            /\ \E n \in 1..Len(TracksOf(player_data.val)) :
                    TracksOf(player_data.val)[n] = selected_caption.val
            /\ "language" \in DOMAIN request.args
            /\ selected_caption.val.languageCode = request.args.language
            /\ trace[i][2] = selected_caption.val.baseUrl
        /\ \A i \in Positions("ET.fromstring") :
            /\ \E j \in Positions("requests.get") : \E k \in Positions("get.returned") :
                    j < k /\ k < i
            /\ i + 1 = Len(trace)
            /\ trace[i + 1][1] = "response"

C5_Witness ==
    /\ pc = "done"
    /\ Count("client.player") = 1
    /\ Count("requests.get") = 1
    /\ Count("ET.fromstring") = 1
    /\ Answered(200)

\* the indices of the tracks whose languageCode is exactly that language
Matching(tracks, language) ==
    {i \in 1..Len(tracks) :
        "languageCode" \in DOMAIN tracks[i] /\ tracks[i].languageCode = language}

\* the indices of the tracks that have no languageCode
Unlabelled(tracks) == {i \in 1..Len(tracks) : "languageCode" \notin DOMAIN tracks[i]}

\* requests.get was called once, with that url
FetchedOnce(url) ==
    /\ Count("requests.get") = 1
    /\ \A i \in Positions("requests.get") : trace[i][2] = url

\* C6 as stated: with a non-empty language parameter and a metadata response
\* that has caption tracks, requests.get is called with the baseUrl of the
\* first track, in metadata order, whose languageCode equals the parameter
\* exactly; when no track has that languageCode the response is 404 with an
\* error naming the language and requests.get is not called.
C6_AsStated ==
    (CaptionsRequest /\ "language" \in DOMAIN request.args /\ request.args.language # ""
        /\ player_data.some /\ TracksOf(player_data.val) # <<>>) =>
        LET tracks == TracksOf(player_data.val)
            language == request.args.language
            found == Matching(tracks, language)
        IN  IF found = {}
            THEN /\ Answered(404)
                 /\ response.val.body.error =
                        "No captions available for the selected language: " \o language
                 /\ Count("requests.get") = 0
            ELSE /\ "baseUrl" \in DOMAIN tracks[Min(found)]
                 /\ FetchedOnce(tracks[Min(found)].baseUrl)

\* C6 amended: with a non-empty language parameter and a metadata response
\* that has caption tracks, the request is answered 500 with the text 'url',
\* and nothing is fetched, when the last thumbnail of the video or of the
\* channel has no url.  Otherwise the tracks are examined in metadata order
\* up to the first whose languageCode equals the parameter exactly: a track
\* without languageCode met on the way ends the request with 500
\* 'languageCode' and nothing is fetched; when the tracks all have a
\* languageCode and none has that one, the response is 404 with an error
\* naming the language and nothing is fetched; when the first match has no
\* baseUrl the response is 500 'baseUrl' and nothing is fetched; otherwise
\* requests.get is called once, with the baseUrl of the first match.
C6_FirstExactMatchIsFetched ==
    (CaptionsRequest /\ "language" \in DOMAIN request.args /\ request.args.language # ""
        /\ player_data.some /\ TracksOf(player_data.val) # <<>>) =>
        LET tracks == TracksOf(player_data.val)
            language == request.args.language
            found == Matching(tracks, language)
            examined == IF found = {} THEN 1..Len(tracks) ELSE 1..Min(found)
        IN  IF DetailsFail(player_data.val)
            THEN MissingKey("url") /\ Count("requests.get") = 0
            ELSE IF Unlabelled(tracks) \cap examined # {}
            THEN MissingKey("languageCode") /\ Count("requests.get") = 0
            ELSE IF found = {}
            THEN /\ Answered(404)
                 /\ response.val.body.error =
                        "No captions available for the selected language: " \o language
                 /\ Count("requests.get") = 0
            ELSE IF "baseUrl" \notin DOMAIN tracks[Min(found)]
            THEN MissingKey("baseUrl") /\ Count("requests.get") = 0
            ELSE FetchedOnce(tracks[Min(found)].baseUrl)

C6_Witness ==
    /\ CaptionsRequest
    /\ pc = "parse"
    /\ "language" \in DOMAIN request.args
    /\ request.args.language = "en"
    /\ player_data.some
    /\ Len(TracksOf(player_data.val)) = 2
    /\ Matching(TracksOf(player_data.val), "en") = {1, 2}
    /\ TracksOf(player_data.val)[1].baseUrl # TracksOf(player_data.val)[2].baseUrl
    /\ \E i \in Positions("requests.get") : trace[i][2] = TracksOf(player_data.val)[1].baseUrl

C6_WitnessNoMatch ==
    /\ CaptionsRequest
    /\ Answered(404)
    /\ "language" \in DOMAIN request.args
    /\ request.args.language = "en"
    /\ player_data.some
    /\ Len(TracksOf(player_data.val)) = 2
    /\ TracksOf(player_data.val)[1].languageCode = "EN"
    /\ TracksOf(player_data.val)[2].languageCode = "en-US"

\* the first match comes before a track without languageCode and is fetched
C6_WitnessBeforeUnlabelled ==
    /\ CaptionsRequest
    /\ pc = "parse"
    /\ "language" \in DOMAIN request.args
    /\ request.args.language = "de"
    /\ player_data.some
    /\ Len(TracksOf(player_data.val)) = 2
    /\ Matching(TracksOf(player_data.val), "de") = {1}
    /\ Unlabelled(TracksOf(player_data.val)) = {2}
    /\ FetchedOnce(TracksOf(player_data.val)[1].baseUrl)

\* a track without languageCode comes before the match: 500, nothing fetched
C6_WitnessUnlabelledFirst ==
    /\ CaptionsRequest
    /\ "language" \in DOMAIN request.args
    /\ request.args.language = "en"
    /\ player_data.some
    /\ ~DetailsFail(player_data.val)
    /\ Unlabelled(TracksOf(player_data.val)) = {1}
    /\ Matching(TracksOf(player_data.val), "en") = {2}
    /\ MissingKey("languageCode")

\* the first match has no baseUrl, the second has one: 500, nothing fetched
C6_WitnessNoBaseUrl ==
    /\ CaptionsRequest
    /\ "language" \in DOMAIN request.args
    /\ request.args.language = "de"
    /\ player_data.some
    /\ ~DetailsFail(player_data.val)
    /\ Matching(TracksOf(player_data.val), "de") = {1, 2}
    /\ "baseUrl" \notin DOMAIN TracksOf(player_data.val)[1]
    /\ "baseUrl" \in DOMAIN TracksOf(player_data.val)[2]
    /\ MissingKey("baseUrl")
    /\ Count("requests.get") = 0

\* C7 as stated: when the metadata response has no caption tracks (the path
\* captions / playerCaptionsTracklistRenderer / captionTracks is cut at any
\* level, or the list is empty) the request is answered 404 'No captions
\* available for this video.', with or without a language or timestamps
\* parameter: no languages are listed and requests.get is not called.
C7_AsStated ==
    (CaptionsRequest /\ player_data.some /\ TracksOf(player_data.val) = <<>>) =>
        /\ Answered(404)
        /\ response.val.body.error = "No captions available for this video."
        /\ "available_languages" \notin DOMAIN response.val.body
        /\ Count("requests.get") = 0

\* C7 amended: when the metadata response has no caption tracks (the path
\* captions / playerCaptionsTracklistRenderer / captionTracks is cut at any
\* level, or the list is empty) the request is answered 404 'No captions
\* available for this video.', with or without a language or timestamps
\* parameter, unless the last thumbnail of the video or of the channel has
\* no url: the video details are read before the tracks, and the request is
\* then answered 500 with the text 'url'.  In both cases no languages are
\* listed and requests.get is not called.
C7_NoCaptionsIs404 ==
    (CaptionsRequest /\ player_data.some /\ TracksOf(player_data.val) = <<>>) =>
        /\ IF DetailsFail(player_data.val)
           THEN MissingKey("url")
           ELSE /\ Answered(404)
                /\ response.val.body.error = "No captions available for this video."
        /\ "available_languages" \notin DOMAIN response.val.body
        /\ Count("requests.get") = 0

C7_Witness ==
    /\ CaptionsRequest
    /\ Answered(404)
    /\ player_data.some
    /\ "captions" \in DOMAIN player_data.val
    /\ "playerCaptionsTracklistRenderer" \notin DOMAIN player_data.val.captions
    /\ "language" \in DOMAIN request.args
    /\ request.args.language = "en"
    /\ "timestamps" \in DOMAIN request.args

\* no caption track, and a last channel thumbnail without url: 500
C7_WitnessNoUrl ==
    /\ CaptionsRequest
    /\ player_data.some
    /\ TracksOf(player_data.val) = <<>>
    /\ DetailsFail(player_data.val)
    /\ ~LastLacksUrl(Along(player_data.val, <<"videoDetails", "thumbnail", "thumbnails">>))
    /\ MissingKey("url")

\* the children of the root of the document fetched
Children == raw_captions.val.root.children

IsTextElement(e) == e.tag = "text"

\* the 'text' elements that are direct children of the root, in document order
TextChildren == SelectSeq(Children, IsTextElement)

\* the number of seconds sign * d1.d2...dn * 10^exp
Seconds(neg, digits, exp) == [kind |-> "finite", neg |-> neg, digits |-> digits, exp |-> exp]

\* the seconds the attribute values of Elems denote
SecondsTable ==
    {<<Chars("0"), Seconds(FALSE, <<>>, 0)>>,
     <<Chars("1"), Seconds(FALSE, <<1>>, 0)>>,
     <<Chars("6"), Seconds(FALSE, <<6>>, 0)>>,
     <<<<1777, 1778>>, Seconds(FALSE, <<1, 2>>, 1)>>,
     <<Chars("1.5"), Seconds(FALSE, <<1, 5>>, 0)>>,
     <<Chars("2.25"), Seconds(FALSE, <<2, 2, 5>>, 0)>>,
     <<Chars(".5"), Seconds(FALSE, <<5>>, -1)>>,
     <<Chars("-1"), Seconds(TRUE, <<1>>, 0)>>,
     <<Chars("1e3"), Seconds(FALSE, <<1>>, 3)>>,
     <<<<160, 52, 10>>, Seconds(FALSE, <<4>>, 0)>>,
     <<Chars("+1_0."), Seconds(FALSE, <<1>>, 1)>>,
     <<Chars("1.0005"), Seconds(FALSE, <<1, 0, 0, 0, 5>>, 0)>>,
     <<Chars("inf"), [kind |-> "inf", neg |-> FALSE]>>,
     <<Chars("NaN"), [kind |-> "nan"]>>}

SecondsOf(s) == (CHOOSE p \in SecondsTable : p[1] = s)[2]

AttributeOrZero(e, key) ==
    IF key \in DOMAIN e.attrib THEN SecondsOf(e.attrib[key]) ELSE Seconds(FALSE, <<>>, 0)

TextOrEmpty(e) == IF e.text.some THEN e.text.val ELSE <<>>

HasText(e) == TextOrEmpty(e) # <<>>

\* the first n of the texts, each two separated by one space
RECURSIVE Spaced(_, _)
Spaced(elements, n) ==
    IF n = 0 THEN <<>>
    ELSE IF n = 1 THEN TextOrEmpty(elements[1])
    ELSE Spaced(elements, n - 1) \o Space \o TextOrEmpty(elements[n])

\* s from position i on, with "&#39;" read as " ; " and a newline as two spaces
RECURSIVE Rewritten(_, _)
Rewritten(s, i) ==
    IF i > Len(s) THEN <<>>
    ELSE IF i + 4 <= Len(s) /\ SubSeq(s, i, i + 4) = Apostrophe
         THEN Semicolon \o Rewritten(s, i + 5)
    ELSE IF s[i] = 10 THEN TwoSpaces \o Rewritten(s, i + 1)
    ELSE <<s[i]>> \o Rewritten(s, i + 1)

\* C8: the document is parsed into one (start, duration, text) record per
\* 'text' element that is a direct child of the root, in document order, a
\* missing start or dur read as 0 and a missing text as the empty string; in
\* the non-timestamp mode 'captions' is the non-empty texts of those records,
\* in order, joined by one space, with "&#39;" replaced by " ; " and every
\* newline by two spaces, so that it holds no newline.
C8_RecordsAndConcatenation ==
    (Answered(200) /\ raw_captions.some) =>
        LET body == response.val.body
            spoken == SelectSeq(TextChildren, HasText)
        IN  /\ "timestamped_captions" \in DOMAIN body =>
                /\ Len(body.timestamped_captions) = Len(TextChildren)
                /\ \A i \in 1..Len(TextChildren) :
                    body.timestamped_captions[i] =
                        [start    |-> AttributeOrZero(TextChildren[i], "start"),
                         duration |-> AttributeOrZero(TextChildren[i], "dur"),
                         text     |-> TextOrEmpty(TextChildren[i])]
            /\ "captions" \in DOMAIN body =>
                /\ body.captions = Rewritten(Spaced(spoken, Len(spoken)), 1)
                /\ \A i \in 1..Len(body.captions) : body.captions[i] # 10
            /\ "timestamped_captions" \in DOMAIN body \/ "captions" \in DOMAIN body

C8_Witness ==
    /\ Answered(200)
    /\ raw_captions.some
    /\ Len(Children) = 3
    /\ Children[1].text = Some(Chars("it&#39;s"))
    /\ Children[2].tag = "text" /\ ~Children[2].text.some
    /\ Children[3].text = Some(Chars("a\nb"))
    /\ "captions" \in DOMAIN response.val.body
    /\ response.val.body.captions = Chars("it ; s a  b")

C8_WitnessRecords ==
    /\ Answered(200)
    /\ raw_captions.some
    /\ Len(Children) = 3
    /\ Children[1].tag = "body"
    /\ Children[2].attrib = [start |-> Chars("-1"), dur |-> Chars("1e3")]
    /\ Children[3].attrib = [start |-> <<160, 52, 10>>, dur |-> Chars("+1_0.")]
    /\ "timestamped_captions" \in DOMAIN response.val.body
    /\ response.val.body.timestamped_captions =
        <<[start    |-> [kind |-> "finite", neg |-> TRUE, digits |-> <<1>>, exp |-> 0],
           duration |-> [kind |-> "finite", neg |-> FALSE, digits |-> <<1>>, exp |-> 3],
           text     |-> <<>>],
          [start    |-> [kind |-> "finite", neg |-> FALSE, digits |-> <<4>>, exp |-> 0],
           duration |-> [kind |-> "finite", neg |-> FALSE, digits |-> <<1>>, exp |-> 1],
           text     |-> <<>>]>>
====
